---- MODULE Spec2Model ----
(***************************************************************************)
(* Semantic compression codec of PaniniFS-Research:                        *)
(*   compressor_mvp/guide_bytecode.py    guide bytecode codec              *)
(*   compressor_mvp/mock_compressor.py   compression pipeline              *)
(*   compression_validation_algo.py      validation harness                *)
(* Texts are sequences of Unicode code points, byte strings are sequences  *)
(* of integers in 0..255.  Python indexes are 0-based, TLA+ sequences are  *)
(* 1-based: byte i of a Python bytes object b is b[i+1] here.              *)
(***************************************************************************)
EXTENDS Integers, Sequences, FiniteSets, TLC

VARIABLES
    byteorder,      \* sys.byteorder of the platform: struct's native mode
    str_hash,       \* hash() of this process for the node ids (salted per process)
    version,        \* GuideBytecode.version
    operations,     \* GuideBytecode.operations
    added,          \* the operations handed to add_* so far, in call order
    lastCall,       \* the last add_* call: its name, arguments, outcome
    decoded,        \* outcome of the last serialize/deserialize/parse_operations
    wire,           \* serialized guide bytes received from outside
    source,         \* text and language of the last MockCompressor.compress call
    artifact,       \* what that call returned, or the error it raised
    restored,       \* outcome of MockCompressor.decompress of that artifact
    compression_cache,  \* MockSemanticCompressor.compression_cache
    h_call,         \* the last call on the validator or its compressor, with its result
    ncalls,         \* number of calls made so far on the object under test
    dhatu_graph,    \* DhatuSemanticGraph: nodes and edges
    graph_call,     \* the last call on the graph, with its result
    representation, \* SemanticRepresentation: sequence, graph.nodes, graph.edges
    repr_calls      \* the calls made on the representation so far, in call order

codecVars == <<byteorder, str_hash, version, operations, added, lastCall, decoded, wire>>

pipeVars == <<source, artifact, restored>>

harnessVars == <<compression_cache, h_call, ncalls>>

graphVars == <<dhatu_graph, graph_call>>

reprVars == <<representation, repr_calls>>

vars == <<codecVars, pipeVars, harnessVars, graphVars, reprVars>>

(***************************************************************************)
(* Bounds of the exploration.                                              *)
(***************************************************************************)
MaxOps == 2             \* add_* calls per guide
MaxWireLen == 4         \* operation bytes of a guide received from outside
MaxPieces == 2          \* pieces a source text is made of
MaxTextLen == 1         \* characters of a text handed to the harness
MaxTestTexts == 1       \* texts in one test_symmetry / test_integrity list
MaxIterations == 2      \* iterations of test_determinism
MaxCalls == 2           \* calls on one CompressionValidator
MaxGraphCalls == 4      \* calls on one DhatuSemanticGraph
MaxTopK == 2            \* top_k of find_similar
MaxReprCalls == 4       \* calls on one SemanticRepresentation

(***************************************************************************)
(* Sequences, Python style.                                                *)
(***************************************************************************)
Min(a, b) == IF a < b THEN a ELSE b
Max(a, b) == IF a > b THEN a ELSE b

\* the concatenation of the sequences of ss, by halves, which keeps the
\* recursion shallow for long texts
RECURSIVE Flatten(_)
Flatten(ss) ==
    IF Len(ss) = 0 THEN <<>>
    ELSE IF Len(ss) = 1 THEN ss[1]
    ELSE LET m == Len(ss) \div 2
         IN  Flatten(SubSeq(ss, 1, m)) \o Flatten(SubSeq(ss, m + 1, Len(ss)))

\* s[lo:hi] for lo >= 0; a negative hi counts from the end
PySlice(s, lo, hi) ==
    LET h == IF hi < 0 THEN Max(Len(s) + hi, 0) ELSE Min(hi, Len(s))
        l == Min(lo, Len(s))
    IN  IF h <= l THEN <<>> ELSE SubSeq(s, l + 1, h)

\* bytes.find(b, start): 0-based index of the first b at or after start, else -1
PyFind(s, b, start) ==
    LET hits == {i \in start..(Len(s) - 1) : s[i + 1] = b}
    IN  IF hits = {} THEN -1 ELSE CHOOSE i \in hits : \A j \in hits : i <= j

SeqsUpTo(S, n) == UNION {[1..k -> S] : k \in 0..n}

(***************************************************************************)
(* str.encode('utf-8') and bytes.decode('utf-8').                          *)
(***************************************************************************)
Utf8Char(cp) ==
    IF cp < 128 THEN <<cp>>
    ELSE IF cp < 2048 THEN <<192 + (cp \div 64), 128 + (cp % 64)>>
    ELSE IF cp < 65536
         THEN <<224 + (cp \div 4096), 128 + ((cp \div 64) % 64), 128 + (cp % 64)>>
    ELSE <<240 + (cp \div 262144), 128 + ((cp \div 4096) % 64),
           128 + ((cp \div 64) % 64), 128 + (cp % 64)>>

Utf8Encode(text) == Flatten([i \in 1..Len(text) |-> Utf8Char(text[i])])

IsCont(b) == b >= 128 /\ b <= 191

\* length of the UTF-8 sequence a lead byte opens, 0 for an invalid lead byte
Utf8Width(b) ==
    IF b < 128 THEN 1
    ELSE IF b >= 194 /\ b <= 223 THEN 2
    ELSE IF b >= 224 /\ b <= 239 THEN 3
    ELSE IF b >= 240 /\ b <= 244 THEN 4
    ELSE 0

\* the strict decoder: [ok |-> FALSE] stands for UnicodeDecodeError
RECURSIVE Utf8Decode(_)
Utf8Decode(bs) ==
    IF bs = <<>> THEN [ok |-> TRUE, text |-> <<>>]
    ELSE
      LET w == Utf8Width(bs[1])
      IN  IF w = 0 \/ Len(bs) < w \/ \E k \in 2..w : ~IsCont(bs[k])
          THEN [ok |-> FALSE, text |-> <<>>]
          ELSE
            LET cp == IF w = 1 THEN bs[1]
                      ELSE IF w = 2 THEN (bs[1] - 192) * 64 + (bs[2] - 128)
                      ELSE IF w = 3
                           THEN (bs[1] - 224) * 4096 + (bs[2] - 128) * 64 + (bs[3] - 128)
                      ELSE (bs[1] - 240) * 262144 + (bs[2] - 128) * 4096
                           + (bs[3] - 128) * 64 + (bs[4] - 128)
                bad == \/ (w = 3 /\ cp < 2048)
                       \/ (w = 3 /\ cp >= 55296 /\ cp <= 57343)
                       \/ (w = 4 /\ (cp < 65536 \/ cp > 1114111))
                rest == Utf8Decode(SubSeq(bs, w + 1, Len(bs)))
            IN  IF bad \/ ~rest.ok THEN [ok |-> FALSE, text |-> <<>>]
                ELSE [ok |-> TRUE, text |-> <<cp>> \o rest.text]

(***************************************************************************)
(* struct, native mode ('@'): native byte order and native alignment, so   *)
(* an 'H' after one 'B' is preceded by one pad byte.                       *)
(***************************************************************************)
PackH(v) ==
    IF byteorder = "little" THEN <<v % 256, v \div 256>>
    ELSE <<v \div 256, v % 256>>

UnpackH(b0, b1) ==
    IF byteorder = "little" THEN b0 + 256 * b1 ELSE 256 * b0 + b1

pack_BHB(a, h, b) == <<a, 0>> \o PackH(h) \o <<b>>
pack_BH(a, h) == <<a, 0>> \o PackH(h)
pack_BBH(a, b, h) == <<a, b>> \o PackH(h)

\* struct.calcsize of the formats parse_operations unpacks
calcsize_HB == 3
calcsize_H == 2

(***************************************************************************)
(* GuideOpcode                                                             *)
(***************************************************************************)
REPLACE == 1
INSERT == 2
DELETE == 3
DISAMBIGUATE == 16
SPECIFY == 17
CONTEXT_START == 32
CONTEXT_END == 33

GuideOpcode == {REPLACE, INSERT, DELETE, DISAMBIGUATE, SPECIFY,
                CONTEXT_START, CONTEXT_END}

(***************************************************************************)
(* GuideBytecode: the record each add_* call appends.                      *)
(***************************************************************************)
replace_record(position, old_len, new_text) ==
    pack_BHB(REPLACE, position % 65536, old_len % 256)
        \o Utf8Encode(new_text) \o <<0>>

insert_record(position, text) ==
    pack_BH(INSERT, position % 65536) \o Utf8Encode(text) \o <<0>>

delete_record(position, length) ==
    pack_BHB(DELETE, position % 65536, length % 256)

disambiguate_record(node_id, choice) ==
    pack_BBH(DISAMBIGUATE, choice % 256, str_hash[node_id] % 65536)

specify_record(node_id, specification) ==
    pack_BH(SPECIFY, str_hash[node_id] % 65536)
        \o Utf8Encode(specification) \o <<0>>

\* GuideBytecode.serialize, of a guide with the given version and operations
serialize(ver, ops) ==
    <<ver, (Len(ops) \div 256) % 256, Len(ops) % 256>> \o ops

GuideLen(ops) == 3 + Len(ops)

\* GuideBytecode.deserialize: struct.unpack('BBB', data[:3]) needs 3 bytes
deserialize(data) ==
    IF Len(data) < 3
    THEN [raised |-> "struct.error", version |-> 0, operations |-> <<>>]
    ELSE LET op_length == data[2] * 256 + data[3]
         IN  [raised |-> "none", version |-> data[1],
              operations |-> PySlice(data, 3, 3 + op_length)]

(***************************************************************************)
(* GuideBytecode.parse_operations.  ParseStep is one iteration of the      *)
(* while loop at a given offset (offset < len(operations)).                *)
(***************************************************************************)
ParseStart == [offset |-> 0, ops |-> <<>>, outcome |-> "running",
               unterminated |-> FALSE, truncated |-> FALSE, unknown |-> FALSE]

ParseStep(b, st) ==
    LET offset == st.offset
        byte == b[offset + 1]
        room(n) == Len(b) - (offset + 1) >= n
        textAt(start) ==
            LET null_pos == PyFind(b, 0, start)
            IN  [null_pos |-> null_pos,
                 dec |-> Utf8Decode(PySlice(b, start, null_pos))]
    IN
    IF byte \notin GuideOpcode     \* GuideOpcode(byte) raises
    THEN [st EXCEPT !.outcome = "ValueError", !.unknown = TRUE]
    ELSE IF byte = REPLACE THEN
        IF ~room(calcsize_HB)
        THEN [st EXCEPT !.outcome = "struct.error", !.truncated = TRUE]
        ELSE LET position == UnpackH(b[offset + 2], b[offset + 3])
                 old_len == b[offset + 4]
                 t == textAt(offset + 4)
             IN  IF ~t.dec.ok THEN [st EXCEPT !.outcome = "UnicodeDecodeError"]
                 ELSE [st EXCEPT
                         !.offset = t.null_pos + 1,
                         !.unterminated = @ \/ t.null_pos = -1,
                         !.ops = Append(@, [opcode |-> REPLACE, position |-> position,
                                            old_len |-> old_len, text |-> t.dec.text])]
    ELSE IF byte = INSERT THEN
        IF ~room(calcsize_H)
        THEN [st EXCEPT !.outcome = "struct.error", !.truncated = TRUE]
        ELSE LET position == UnpackH(b[offset + 2], b[offset + 3])
                 t == textAt(offset + 3)
             IN  IF ~t.dec.ok THEN [st EXCEPT !.outcome = "UnicodeDecodeError"]
                 ELSE [st EXCEPT
                         !.offset = t.null_pos + 1,
                         !.unterminated = @ \/ t.null_pos = -1,
                         !.ops = Append(@, [opcode |-> INSERT, position |-> position,
                                            text |-> t.dec.text])]
    ELSE IF byte = DELETE THEN
        IF ~room(calcsize_HB)
        THEN [st EXCEPT !.outcome = "struct.error", !.truncated = TRUE]
        ELSE [st EXCEPT
                !.offset = offset + 4,
                !.ops = Append(@, [opcode |-> DELETE,
                                   position |-> UnpackH(b[offset + 2], b[offset + 3]),
                                   length |-> b[offset + 4]])]
    ELSE IF byte \in {DISAMBIGUATE, SPECIFY} THEN [st EXCEPT !.offset = offset + 4]
    ELSE [st EXCEPT !.outcome = "returned"]

\* The loop.  A text without a null terminator sets offset back to 0
\* (null_pos = -1), from where the same records are parsed again for ever,
\* the list growing until memory runs out: outcome "diverges".
RECURSIVE ParseLoop(_, _)
ParseLoop(b, st) ==
    IF st.outcome # "running" THEN st
    ELSE IF st.offset >= Len(b) THEN [st EXCEPT !.outcome = "returned"]
    ELSE LET nx == ParseStep(b, st)
         IN  IF nx.outcome = "running" /\ nx.offset <= st.offset
             THEN [nx EXCEPT !.outcome = "diverges"]
             ELSE ParseLoop(b, nx)

parse_operations(b) == ParseLoop(b, ParseStart)

\* serialize, deserialize, parse_operations in a row
decode_guide(data) ==
    LET g == deserialize(data)
    IN  IF g.raised # "none"
        THEN [ParseStart EXCEPT !.outcome = g.raised]
        ELSE parse_operations(g.operations)

(***************************************************************************)
(* SemanticRepresentation (semantic_representation.py).  graph.nodes is a  *)
(* Python dict: a sequence of nodes in insertion order, one per id.        *)
(***************************************************************************)
None == "None"          \* graph_node_id of a unit without a graph node

EmptyRepresentation(metadata) ==
    [sequence |-> <<>>, nodes |-> <<>>, edges |-> <<>>, metadata |-> metadata]

\* self.nodes[node.id] = node
graph_add_node(nodes, node) ==
    IF \E i \in 1..Len(nodes) : nodes[i].id = node.id
    THEN [i \in 1..Len(nodes) |-> IF nodes[i].id = node.id THEN node ELSE nodes[i]]
    ELSE Append(nodes, node)

\* add_unit that numbers the position by the graph nodes
add_unit_node_numbered(rep, unit_type, value, create_node) ==
    LET node == [id |-> "n" \o ToString(Len(rep.nodes)),
                 type |-> unit_type, value |-> value]
        unit == [id |-> "u" \o ToString(Len(rep.sequence)), type |-> unit_type,
                 value |-> value, position |-> Len(rep.nodes),
                 graph_node_id |-> IF create_node THEN node.id ELSE None]
    IN  [rep EXCEPT
           !.nodes = IF create_node THEN graph_add_node(@, node) ELSE @,
           !.sequence = Append(@, unit)]

\* add_unit that numbers the node by the sequence
add_unit_unit_numbered(rep, unit_type, value, create_node) ==
    LET node == [id |-> "n" \o ToString(Len(rep.sequence)),
                 type |-> unit_type, value |-> value]
        unit == [id |-> "u" \o ToString(Len(rep.sequence)), type |-> unit_type,
                 value |-> value, position |-> Len(rep.sequence),
                 graph_node_id |-> IF create_node THEN "n" \o ToString(Len(rep.nodes))
                                   ELSE None]
    IN  [rep EXCEPT
           !.nodes = IF create_node THEN graph_add_node(@, node) ELSE @,
           !.sequence = Append(@, unit)]

add_unit(rep, unit_type, value, create_node) ==
    LET unit_id == "u" \o ToString(Len(rep.sequence))
        position == Len(rep.sequence)
        node == [id |-> "n" \o ToString(Len(rep.nodes)),
                 type |-> unit_type, value |-> value]
        unit == [id |-> unit_id, type |-> unit_type, value |-> value,
                 position |-> position,
                 graph_node_id |-> IF create_node THEN node.id ELSE None]
    IN  [rep EXCEPT
           !.nodes = IF create_node THEN graph_add_node(@, node) ELSE @,
           !.sequence = Append(@, unit)]

\* add_relation that is content with one graph node
add_relation_either(rep, from_unit, to_unit, relation) ==
    IF from_unit.graph_node_id # None \/ to_unit.graph_node_id # None
    THEN [rep EXCEPT !.edges = Append(@, [from_id |-> from_unit.graph_node_id,
                                           to_id |-> to_unit.graph_node_id,
                                           relation |-> relation,
                                           weight |-> 1])]
    ELSE rep

add_relation(rep, from_unit, to_unit, relation) ==
    IF from_unit.graph_node_id # None /\ to_unit.graph_node_id # None
    THEN [rep EXCEPT !.edges = Append(@, [from_id |-> from_unit.graph_node_id,
                                           to_id |-> to_unit.graph_node_id,
                                           relation |-> relation,
                                           weight |-> 1])]
    ELSE rep

\* SemanticUnitType.value
TypeValue(t) ==
    CASE t = "DHATU" -> "dhatu"
      [] t = "PATTERN" -> "pattern"
      [] t = "CONCEPT" -> "concept"
      [] t = "IDIOM" -> "idiom"
      [] t = "ENTITY" -> "entity"

\* A value is Any: a str is the sequence of its code points, an int is
\* NotStr followed by its decimal digits.  str(value) leaves a str as it is
\* and writes an int in decimal.
NotStr == -1

PyInt(digits) == <<NotStr>> \o digits

py_str(value) ==
    IF Len(value) > 0 /\ value[1] = NotStr THEN Tail(value) ELSE value

\* add_unit leaves metadata and attributes at their default, the empty dict
unit_to_dict(u) ==
    [id |-> u.id, type |-> TypeValue(u.type), value |-> py_str(u.value),
     position |-> u.position, graph_node_id |-> u.graph_node_id,
     metadata |-> <<>>]

node_to_dict(n) ==
    [id |-> n.id, type |-> TypeValue(n.type), value |-> py_str(n.value),
     attributes |-> <<>>]

edge_to_dict(e) ==
    [from |-> e.from_id, to |-> e.to_id, relation |-> e.relation, weight |-> e.weight]

to_dict(rep) ==
    [sequence |-> [i \in 1..Len(rep.sequence) |-> unit_to_dict(rep.sequence[i])],
     graph |-> [nodes |-> [i \in 1..Len(rep.nodes) |-> node_to_dict(rep.nodes[i])],
                edges |-> [i \in 1..Len(rep.edges) |-> edge_to_dict(rep.edges[i])]],
     metadata |-> rep.metadata]

(***************************************************************************)
(* len(json.dumps(...)) with the default separators and ensure_ascii.      *)
(***************************************************************************)
RECURSIVE SumSeq(_)
SumSeq(ns) == IF ns = <<>> THEN 0 ELSE Head(ns) + SumSeq(Tail(ns))

RECURSIVE DecLen(_)
DecLen(n) == IF n < 10 THEN 1 ELSE 1 + DecLen(n \div 10)

\* one character of a JSON string
JsonCharLen(cp) ==
    IF cp \in {34, 92, 8, 9, 10, 12, 13} THEN 2
    ELSE IF cp >= 32 /\ cp <= 126 THEN 1
    ELSE IF cp < 65536 THEN 6
    ELSE 12

JsonText(text) == 2 + SumSeq([i \in 1..Len(text) |-> JsonCharLen(text[i])])
JsonName(str) == 2 + Len(str)           \* an ASCII identifier, quoted
JsonMember(key, valueLen) == JsonName(key) + 2 + valueLen
JsonList(lens) ==
    IF lens = <<>> THEN 2 ELSE 2 + SumSeq(lens) + 2 * (Len(lens) - 1)

JsonUnit(u) ==
    JsonList(<< JsonMember("id", JsonName(u.id)),
                JsonMember("type", JsonName(u.type)),
                JsonMember("value", JsonText(u.value)),
                JsonMember("position", DecLen(u.position)),
                JsonMember("graph_node_id",
                           IF u.graph_node_id = None THEN 4
                           ELSE JsonName(u.graph_node_id)),
                JsonMember("metadata", 2) >>)

JsonNode(n) ==
    JsonMember(n.id,
        JsonList(<< JsonMember("id", JsonName(n.id)),
                    JsonMember("type", JsonName(n.type)),
                    JsonMember("value", JsonText(n.value)),
                    JsonMember("attributes", 2) >>))

JsonEdge(e) ==
    JsonList(<< JsonMember("from", JsonName(e.from)),
                JsonMember("to", JsonName(e.to)),
                JsonMember("relation", JsonName(e.relation)),
                JsonMember("weight", 3) >>)

json_dumps_len(d) ==
    JsonList(<<
        JsonMember("sequence",
            JsonList([i \in 1..Len(d.sequence) |-> JsonUnit(d.sequence[i])])),
        JsonMember("graph", JsonList(<<
            JsonMember("nodes",
                JsonList([i \in 1..Len(d.graph.nodes) |-> JsonNode(d.graph.nodes[i])])),
            JsonMember("edges",
                JsonList([i \in 1..Len(d.graph.edges) |-> JsonEdge(d.graph.edges[i])])) >>)),
        JsonMember("metadata", JsonList(<<
            JsonMember("language", JsonName(d.metadata.language)),
            JsonMember("source", JsonName(d.metadata.source)) >>)) >>)

(***************************************************************************)
(* str methods used by MockCompressor._analyze_text.                       *)
(***************************************************************************)
\* the characters str.split() splits at
Whitespace == {9, 10, 11, 12, 13, 28, 29, 30, 31, 32, 133, 160}

\* text.split(): the maximal runs of non-whitespace characters
RECURSIVE SplitFrom(_, _, _)
SplitFrom(text, i, word) ==
    IF i > Len(text) THEN (IF word = <<>> THEN <<>> ELSE <<word>>)
    ELSE IF text[i] \in Whitespace
         THEN (IF word = <<>> THEN <<>> ELSE <<word>>) \o SplitFrom(text, i + 1, <<>>)
         ELSE SplitFrom(text, i + 1, Append(word, text[i]))

split(text) == SplitFrom(text, 1, <<>>)

\* str.lower() on ASCII and Latin-1 letters
LowerChar(cp) ==
    IF (cp >= 65 /\ cp <= 90) \/ (cp >= 192 /\ cp <= 222 /\ cp # 215)
    THEN cp + 32 ELSE cp

lower(word) == [i \in 1..Len(word) |-> LowerChar(word[i])]

\* word.strip('.,!?')
StripChars == {46, 44, 33, 63}

strip(word) ==
    LET keep == {i \in 1..Len(word) : word[i] \notin StripChars}
    IN  IF keep = {} THEN <<>>
        ELSE SubSeq(word, CHOOSE i \in keep : \A j \in keep : i <= j,
                          CHOOSE i \in keep : \A j \in keep : i >= j)

\* ' '.join(parts)
RECURSIVE join(_)
join(parts) ==
    IF parts = <<>> THEN <<>>
    ELSE IF Len(parts) = 1 THEN parts[1]
    ELSE parts[1] \o <<32>> \o join(Tail(parts))

(***************************************************************************)
(* MockCompressor (mock_compressor.py)                                     *)
(***************************************************************************)
LE == <<76, 101>>                        \* "Le", the text _generate_guide writes
SQRT == 8730                             \* the root sign of the dhatu values
ENTITY_PREFIX == <<101, 110, 116, 105, 116, 121, 58>>     \* "entity:"
FAIT == <<102, 97, 105, 116>>
ROI == <<114, 111, 105>>
ROYAUME == <<114, 111, 121, 97, 117, 109, 101>>

word_to_dhatu ==
    { <<FAIT, <<SQRT, 107, 7771>> >>,
      << <<118, 97>>, <<SQRT, 103, 97, 109>> >>,
      << <<100, 101, 118, 105, 101, 110, 116>>, <<SQRT, 98, 104, 363>> >>,
      << <<100, 105, 116>>, <<SQRT, 118, 97, 99>> >>,
      << <<100, 111, 110, 110, 101>>, <<SQRT, 100, 257>> >>,
      << <<115, 97, 105, 116>>, <<SQRT, 106, 241, 257>> >>,
      <<ROI, ENTITY_PREFIX \o ROI>>,
      <<ROYAUME, ENTITY_PREFIX \o ROYAUME>> }

Mapped(w) == \E e \in word_to_dhatu : e[1] = w
Lookup(w) == (CHOOSE e \in word_to_dhatu : e[1] = w)[2]

startswith(value, prefix) ==
    Len(value) >= Len(prefix) /\ SubSeq(value, 1, Len(prefix)) = prefix

\* value.replace('entity:', '') of a value that starts with the prefix and
\* holds it once
RemovePrefix(value, prefix) == SubSeq(value, Len(prefix) + 1, Len(value))

\* the unit _analyze_text adds for one word
analyze_word(rep, word) ==
    LET word_lower == strip(lower(word))
    IN  IF Mapped(word_lower)
        THEN LET value == Lookup(word_lower)
             IN  IF startswith(value, <<SQRT>>)
                 THEN add_unit(rep, "DHATU", value, TRUE)
                 ELSE IF startswith(value, ENTITY_PREFIX)
                 THEN add_unit(rep, "ENTITY", RemovePrefix(value, ENTITY_PREFIX), TRUE)
                 ELSE add_unit(rep, "CONCEPT", value, TRUE)
        ELSE add_unit(rep, "PATTERN", word, TRUE)

RECURSIVE AnalyzeWords(_, _)
AnalyzeWords(rep, words) ==
    IF words = <<>> THEN rep
    ELSE AnalyzeWords(analyze_word(rep, Head(words)), Tail(words))

\* the relation loop over range(len(sequence) - 1), from index i (0-based)
RECURSIVE AddRelations(_, _)
AddRelations(rep, i) ==
    IF i >= Len(rep.sequence) - 1 THEN rep
    ELSE LET current == rep.sequence[i + 1]
             next_unit == rep.sequence[i + 2]
         IN  AddRelations(
                 IF current.type = "ENTITY" /\ next_unit.type = "DHATU"
                 THEN add_relation(rep, current, next_unit, "AGENT")
                 ELSE rep,
                 i + 1)

analyze_text(text, language) ==
    AddRelations(
        AnalyzeWords(
            EmptyRepresentation([language |-> language, source |-> "mock_analyzer"]),
            split(text)),
        0)

\* the operation bytes of the guide _generate_guide builds
generate_guide(original_text, sem_repr) ==
    replace_record(0, 4, LE)
        \o (IF Len(sem_repr.nodes) > 0
            THEN disambiguate_record(sem_repr.nodes[1].id, 1)
            ELSE <<>>)

\* bytes.hex() and bytes.fromhex()
HexDigit(n) == IF n < 10 THEN 48 + n ELSE 87 + n
hex(bs) == Flatten([i \in 1..Len(bs) |-> <<HexDigit(bs[i] \div 16), HexDigit(bs[i] % 16)>>])

HexValue(c) ==
    IF c >= 48 /\ c <= 57 THEN c - 48
    ELSE IF c >= 97 /\ c <= 102 THEN c - 87
    ELSE IF c >= 65 /\ c <= 70 THEN c - 55
    ELSE -1

fromhex(str) ==
    IF Len(str) % 2 # 0 \/ \E i \in 1..Len(str) : HexValue(str[i]) < 0
    THEN [ok |-> FALSE, bytes |-> <<>>]
    ELSE [ok |-> TRUE,
          bytes |-> [i \in 1..(Len(str) \div 2) |->
                        16 * HexValue(str[2 * i - 1]) + HexValue(str[2 * i])]]

\* round((1 - total / original) * 100, 2), in hundredths, ties to even
Ratio(total, original) ==
    LET num == (original - total) * 10000
        q == num \div original
        r == num % original
    IN  IF 2 * r > original \/ (2 * r = original /\ q % 2 = 1) THEN q + 1 ELSE q

NoArtifact == [raised |-> "not called"]

MockCompressor_compress(text, language) ==
    LET sem_repr == analyze_text(text, language)
        guide == generate_guide(text, sem_repr)
        original_bytes == Len(Utf8Encode(text))
        semantic_bytes == json_dumps_len(to_dict(sem_repr))
        guide_bytes == GuideLen(guide)
        total_bytes == semantic_bytes + guide_bytes
    IN  IF original_bytes = 0
        THEN [raised |-> "ZeroDivisionError"]
        ELSE [raised |-> "none",
              semantic |-> to_dict(sem_repr),
              guide |-> hex(serialize(1, guide)),
              dhatu_count |-> Len(sem_repr.nodes),
              stats |-> [original_size |-> original_bytes,
                         semantic_size |-> semantic_bytes,
                         guide_size |-> guide_bytes,
                         total_size |-> total_bytes,
                         compression_ratio |-> Ratio(total_bytes, original_bytes)]]

MockCompressor_decompress(semantic_dict, guide_hex) ==
    LET sequence == semantic_dict.sequence
        text == join([i \in 1..Len(sequence) |-> sequence[i].value])
        guide_bytes == fromhex(guide_hex)
        parsed == decode_guide(guide_bytes.bytes)
    IN  IF ~guide_bytes.ok THEN [raised |-> "ValueError", text |-> <<>>]
        ELSE IF parsed.outcome # "returned"
        THEN [raised |-> parsed.outcome, text |-> <<>>]
        ELSE [raised |-> "none", text |-> text]

(***************************************************************************)
(* hashlib.sha256 and zlib, the two library functions the harness calls.   *)
(* Sha256 is a deterministic 32-byte fingerprint of the input bytes (a     *)
(* polynomial hash spread over 32 bytes); Zlib frames the input as         *)
(* header, run-length body and Adler-32 trailer, and ZlibDecompress        *)
(* rejects a wrong header, a malformed body and a wrong checksum.          *)
(***************************************************************************)
RECURSIVE PolyHash(_, _)
PolyHash(bs, h) ==
    IF bs = <<>> THEN h ELSE PolyHash(Tail(bs), (h * 257 + Head(bs) + 1) % 65521)

Sha256(bs) ==
    LET h == PolyHash(bs, 7)
    IN  [i \in 1..32 |-> IF i = 1 THEN h % 256
                         ELSE IF i = 2 THEN h \div 256
                         ELSE (h * i + i) % 256]

RECURSIVE RunLength(_)
RunLength(bs) ==
    IF Len(bs) <= 1 \/ bs[1] # bs[2] THEN Min(1, Len(bs))
    ELSE Min(255, 1 + RunLength(Tail(bs)))

RECURSIVE Rle(_)
Rle(bs) ==
    IF bs = <<>> THEN <<>>
    ELSE LET n == RunLength(bs)
         IN  <<n, bs[1]>> \o Rle(SubSeq(bs, n + 1, Len(bs)))

RECURSIVE Unrle(_)
Unrle(body) ==
    IF body = <<>> THEN [ok |-> TRUE, bytes |-> <<>>]
    ELSE IF Len(body) < 2 \/ body[1] = 0 THEN [ok |-> FALSE, bytes |-> <<>>]
    ELSE LET rest == Unrle(SubSeq(body, 3, Len(body)))
         IN  IF ~rest.ok THEN rest
             ELSE [ok |-> TRUE, bytes |-> [i \in 1..body[1] |-> body[2]] \o rest.bytes]

RECURSIVE AdlerSums(_, _, _)
AdlerSums(bs, a, b) ==
    IF bs = <<>> THEN <<a, b>>
    ELSE AdlerSums(Tail(bs), (a + Head(bs)) % 65521, (b + a + Head(bs)) % 65521)

Adler32(bs) ==
    LET ab == AdlerSums(bs, 1, 0)
    IN  <<ab[2] \div 256, ab[2] % 256, ab[1] \div 256, ab[1] % 256>>

ZlibHeader == <<120, 218>>               \* 78 DA, the header of level 9

ZlibCompress(bs) == ZlibHeader \o Rle(bs) \o Adler32(bs)

ZlibDecompress(z) ==
    IF Len(z) < 6 \/ SubSeq(z, 1, 2) # ZlibHeader THEN [ok |-> FALSE, bytes |-> <<>>]
    ELSE LET body == Unrle(SubSeq(z, 3, Len(z) - 4))
         IN  IF ~body.ok \/ SubSeq(z, Len(z) - 3, Len(z)) # Adler32(body.bytes)
             THEN [ok |-> FALSE, bytes |-> <<>>]
             ELSE body

(***************************************************************************)
(* MockSemanticCompressor (compression_validation_algo.py).  The cache is  *)
(* a function from the texts compressed so far to their artifacts.         *)
(***************************************************************************)
HASH_LEN == 16
EmptyCache == [t \in {} |-> <<>>]       \* self.compression_cache = {}

\* compress that caches the zlib part without the hash in front
compress_caches_body(cache, text) ==
    IF text \in DOMAIN cache
    THEN [result |-> cache[text], cache |-> cache]
    ELSE LET semantic_hash == PySlice(Sha256(Utf8Encode(text)), 0, HASH_LEN)
             compressed_text == ZlibCompress(Utf8Encode(text))
         IN  [result |-> semantic_hash \o compressed_text,
              cache |-> [t \in DOMAIN cache \cup {text} |->
                            IF t = text THEN compressed_text ELSE cache[t]]]

\* compress that keeps only the last text in the cache
compress_single_entry(cache, text) ==
    IF text \in DOMAIN cache
    THEN [result |-> cache[text], cache |-> cache]
    ELSE LET semantic_hash == PySlice(Sha256(Utf8Encode(text)), 0, HASH_LEN)
             compressed_text == ZlibCompress(Utf8Encode(text))
             result == semantic_hash \o compressed_text
         IN  [result |-> result, cache |-> [t \in {text} |-> result]]

\* compress(text) on a compressor whose cache is given: the bytes returned
\* and the cache afterwards
MockSemanticCompressor_compress(cache, text) ==
    IF text \in DOMAIN cache
    THEN [result |-> cache[text], cache |-> cache]
    ELSE LET semantic_hash == PySlice(Sha256(Utf8Encode(text)), 0, HASH_LEN)
             compressed_text == ZlibCompress(Utf8Encode(text))
             result == semantic_hash \o compressed_text
         IN  [result |-> result,
              cache |-> [t \in DOMAIN cache \cup {text} |->
                            IF t = text THEN result ELSE cache[t]]]

\* decompress that splits the artifact one byte too late
decompress_late_split(compressed) ==
    LET semantic_hash == PySlice(compressed, 0, HASH_LEN)
        compressed_text == PySlice(compressed, HASH_LEN + 1, Len(compressed))
        raw == ZlibDecompress(compressed_text)
        dec == Utf8Decode(raw.bytes)
        expected_hash == PySlice(Sha256(Utf8Encode(dec.text)), 0, HASH_LEN)
    IN  IF ~raw.ok THEN [raised |-> "zlib.error", text |-> <<>>]
        ELSE IF ~dec.ok THEN [raised |-> "UnicodeDecodeError", text |-> <<>>]
        ELSE IF semantic_hash # expected_hash
        THEN [raised |-> "ValueError", text |-> <<>>]
        ELSE [raised |-> "none", text |-> dec.text]

\* decompress that returns the text without comparing the hashes
decompress_unchecked(compressed) ==
    LET compressed_text == PySlice(compressed, HASH_LEN, Len(compressed))
        raw == ZlibDecompress(compressed_text)
        dec == Utf8Decode(raw.bytes)
    IN  IF ~raw.ok THEN [raised |-> "zlib.error", text |-> <<>>]
        ELSE IF ~dec.ok THEN [raised |-> "UnicodeDecodeError", text |-> <<>>]
        ELSE [raised |-> "none", text |-> dec.text]

MockSemanticCompressor_decompress(compressed) ==
    LET semantic_hash == PySlice(compressed, 0, HASH_LEN)
        compressed_text == PySlice(compressed, HASH_LEN, Len(compressed))
        raw == ZlibDecompress(compressed_text)
        dec == Utf8Decode(raw.bytes)
        expected_hash == PySlice(Sha256(Utf8Encode(dec.text)), 0, HASH_LEN)
    IN  IF ~raw.ok THEN [raised |-> "zlib.error", text |-> <<>>]
        ELSE IF ~dec.ok THEN [raised |-> "UnicodeDecodeError", text |-> <<>>]
        ELSE IF semantic_hash # expected_hash
        THEN [raised |-> "ValueError", text |-> <<>>]
        ELSE [raised |-> "none", text |-> dec.text]

(***************************************************************************)
(* CompressionValidator: one test of test_symmetry and of test_integrity,  *)
(* and test_determinism.  Each returns the test's passed flag and the      *)
(* cache of the validator's compressor afterwards.                         *)
(***************************************************************************)
symmetry_test(cache, text) ==
    LET c == MockSemanticCompressor_compress(cache, text)
        d == MockSemanticCompressor_decompress(c.result)
    IN  [cache |-> c.cache,
         passed |-> d.raised = "none" /\ text = d.text,
         error |-> d.raised]

integrity_test(cache, text) ==
    LET original_hash == Sha256(Utf8Encode(text))
        c == MockSemanticCompressor_compress(cache, text)
        d == MockSemanticCompressor_decompress(c.result)
    IN  [cache |-> c.cache,
         passed |-> d.raised = "none" /\ original_hash = Sha256(Utf8Encode(d.text)),
         error |-> d.raised]

\* F of the value of x, which is computed once
With(x, F(_)) == CHOOSE out \in {F(v) : v \in {x}} : TRUE

\* the for loop of test_symmetry / test_integrity over texts
RECURSIVE SymmetryLoop(_, _, _)
SymmetryLoop(cache, texts, tests) ==
    IF texts = <<>> THEN [cache |-> cache, tests |-> tests]
    ELSE With(symmetry_test(cache, Head(texts)), LAMBDA t :
           SymmetryLoop(t.cache, Tail(texts),
                        Append(tests, [passed |-> t.passed, error |-> t.error])))

RECURSIVE IntegrityLoop(_, _, _)
IntegrityLoop(cache, texts, tests) ==
    IF texts = <<>> THEN [cache |-> cache, tests |-> tests]
    ELSE With(integrity_test(cache, Head(texts)), LAMBDA t :
           IntegrityLoop(t.cache, Tail(texts),
                         Append(tests, [passed |-> t.passed, error |-> t.error])))

\* the loop of test_determinism: the results of the remaining iterations
RECURSIVE DeterminismLoop(_, _, _, _)
DeterminismLoop(cache, text, iterations, results) ==
    IF iterations = 0 THEN [cache |-> cache, results |-> results]
    ELSE With(MockSemanticCompressor_compress(cache, text), LAMBDA c :
           DeterminismLoop(c.cache, text, iterations - 1, Append(results, c.result)))

determinism_test(cache, text, iterations) ==
    LET run == DeterminismLoop(cache, text, iterations, <<>>)
    IN  [cache |-> run.cache,
         results |-> run.results,
         passed |-> \A i \in 1..Len(run.results) : run.results[i] = run.results[1]]

\* test_idempotence that compresses the text itself a second time
idempotence_same_text(cache, text) ==
    With(MockSemanticCompressor_compress(cache, text), LAMBDA once :
      With(MockSemanticCompressor_compress(once.cache, text), LAMBDA twice :
        [cache |-> twice.cache,
         compressed_once |-> once.result,
         compressed_twice |-> twice.result,
         passed |-> once.result # twice.result,
         error |-> "none"]))

\* test_idempotence: compressed_once.decode('latin-1') gives each byte the
\* code point of its value; the text of the artifact is compressed again.
\* compress raises on no text of the model, so neither except clause runs.
idempotence_test(cache, text) ==
    With(MockSemanticCompressor_compress(cache, text), LAMBDA once :
      LET compressed_once == once.result
          as_text == [i \in 1..Len(compressed_once) |-> compressed_once[i]]
      IN  With(MockSemanticCompressor_compress(once.cache, as_text), LAMBDA twice :
            [cache |-> twice.cache,
             compressed_once |-> compressed_once,
             compressed_twice |-> twice.result,
             passed |-> compressed_once # twice.result,
             error |-> "none"]))

\* the for loop of test_monotonicity over (short_text, long_text) pairs
RECURSIVE MonotonicityLoop(_, _, _)
MonotonicityLoop(cache, texts, tests) ==
    IF texts = <<>> THEN [cache |-> cache, tests |-> tests]
    ELSE With(MockSemanticCompressor_compress(cache, Head(texts)[1]), LAMBDA short :
         With(MockSemanticCompressor_compress(short.cache, Head(texts)[2]), LAMBDA long :
           LET monotonic == Len(long.result) >= Len(short.result)
           IN  MonotonicityLoop(long.cache, Tail(texts),
                                Append(tests, [passed |-> monotonic, error |-> "none"]))))

\* what run_full_validation makes of the tests run
ValidationResult(symmetry_tests, determinism, idempotence, monotonicity_tests, integrity_tests) ==
    LET all_tests == symmetry_tests
                       \o <<[passed |-> determinism.passed, error |-> "none"],
                            [passed |-> idempotence.passed, error |-> "none"]>>
                       \o monotonicity_tests
                       \o integrity_tests
        passed == Cardinality({i \in 1..Len(all_tests) : all_tests[i].passed})
        total == Len(all_tests)
        All(tests) == \A i \in 1..Len(tests) : tests[i].passed
    IN  [total_tests |-> total,
         passed_tests |-> passed,
         failed_tests |-> total - passed,
         success_rate |-> [num |-> passed * 100, den |-> total],
         tests |-> all_tests,
         properties_validated |->
           [symmetry |-> All(symmetry_tests),
            determinism |-> determinism.passed,
            idempotence |-> idempotence.passed,
            monotonicity |-> All(monotonicity_tests),
            integrity |-> All(integrity_tests)],
         theoretical_guarantees |->
           [lossless |-> IF All(symmetry_tests \o integrity_tests) THEN "YES" ELSE "NO",
            reproducible |-> IF determinism.passed THEN "YES" ELSE "NO",
            one_way |-> IF idempotence.passed THEN "YES" ELSE "NO",
            monotonic_soft |-> IF All(monotonicity_tests) THEN "YES" ELSE "PARTIAL"]]

\* run_full_validation on a validator whose compressor has the cache given.
\* test_texts and monotonicity_pairs are literals of the code; here they are
\* parameters.  success_rate = passed / total * 100 is kept as the exact
\* fraction num/den; the float it rounds to compares with 90 and 75 as the
\* fraction does for every total below 200.
run_full_validation(cache, test_texts, monotonicity_pairs) ==
    With(SymmetryLoop(cache, test_texts, <<>>), LAMBDA symmetry :
    With(determinism_test(symmetry.cache, test_texts[1], 10), LAMBDA determinism :
    With(idempotence_test(determinism.cache, test_texts[1]), LAMBDA idempotence :
    With(MonotonicityLoop(idempotence.cache, monotonicity_pairs, <<>>), LAMBDA monotonicity :
    With(IntegrityLoop(monotonicity.cache, test_texts, <<>>), LAMBDA integrity :
      [cache |-> integrity.cache,
       result |-> ValidationResult(symmetry.tests, determinism, idempotence,
                                   monotonicity.tests, integrity.tests)])))))

(***************************************************************************)
(* DhatuSemanticGraph (dhatu_graph.py).  nodes is a Python dict: a         *)
(* sequence of nodes in insertion order, one per id; edges is a function   *)
(* from node ids to adjacency lists.  A node is its id and its embedding.  *)
(* Embeddings have integer coordinates and norms that are integers, so a   *)
(* similarity is the exact fraction num/den that the float division        *)
(* rounds, and floats compare as their fractions do.                       *)
(***************************************************************************)
EmptyGraph == [nodes |-> <<>>, edges |-> [id \in {} |-> <<>>]]

\* self.nodes[node.id] = node; self.edges[node.id] = []
DhatuSemanticGraph_add_node(graph, node) ==
    [nodes |-> graph_add_node(graph.nodes, node),
     edges |-> [id \in DOMAIN graph.edges \cup {node.id} |->
                  IF id = node.id THEN <<>> ELSE graph.edges[id]]]

\* add_edge that appends without looking for the target in the list
add_edge_unchecked(graph, from_id, to_id) ==
    IF from_id \in DOMAIN graph.edges
    THEN [graph EXCEPT !.edges[from_id] = Append(@, to_id)]
    ELSE graph

\* add_edge that gives a source it does not know an adjacency list
add_edge_any_source(graph, from_id, to_id) ==
    IF from_id \in DOMAIN graph.edges
    THEN IF \A i \in 1..Len(graph.edges[from_id]) : graph.edges[from_id][i] # to_id
         THEN [graph EXCEPT !.edges[from_id] = Append(@, to_id)]
         ELSE graph
    ELSE [graph EXCEPT !.edges = [id \in DOMAIN graph.edges \cup {from_id} |->
                                    IF id = from_id THEN <<to_id>> ELSE graph.edges[id]]]

DhatuSemanticGraph_add_edge(graph, from_id, to_id) ==
    IF from_id \in DOMAIN graph.edges
    THEN IF \A i \in 1..Len(graph.edges[from_id]) : graph.edges[from_id][i] # to_id
         THEN [graph EXCEPT !.edges[from_id] = Append(@, to_id)]
         ELSE graph
    ELSE graph

\* get_neighbors that looks every target up in nodes
get_neighbors_unfiltered(graph, node_id) ==
    IF node_id \notin DOMAIN graph.edges THEN [raised |-> "none", nodes |-> <<>>]
    ELSE LET known(nid) == \E i \in 1..Len(graph.nodes) : graph.nodes[i].id = nid
             lookup(nid) == graph.nodes[CHOOSE i \in 1..Len(graph.nodes) :
                                            graph.nodes[i].id = nid]
             targets == graph.edges[node_id]
         IN  IF \A i \in 1..Len(targets) : known(targets[i])
             THEN [raised |-> "none",
                   nodes |-> [i \in 1..Len(targets) |-> lookup(targets[i])]]
             ELSE [raised |-> "KeyError", nodes |-> <<>>]

DhatuSemanticGraph_get_neighbors(graph, node_id) ==
    IF node_id \notin DOMAIN graph.edges THEN [raised |-> "none", nodes |-> <<>>]
    ELSE LET known(nid) == \E i \in 1..Len(graph.nodes) : graph.nodes[i].id = nid
             lookup(nid) == graph.nodes[CHOOSE i \in 1..Len(graph.nodes) :
                                            graph.nodes[i].id = nid]
             targets == SelectSeq(graph.edges[node_id], known)
         IN  [raised |-> "none",
              nodes |-> [i \in 1..Len(targets) |-> lookup(targets[i])]]

\* zip(a, b) stops at the shorter list; math.sqrt of a perfect square
cosine_similarity(a, b) ==
    LET sqrt(n) == CHOOSE r \in 0..n : r * r = n
        dot == SumSeq([i \in 1..Min(Len(a), Len(b)) |-> a[i] * b[i]])
        norm_a == sqrt(SumSeq([i \in 1..Len(a) |-> a[i] * a[i]]))
        norm_b == sqrt(SumSeq([i \in 1..Len(b) |-> b[i] * b[i]]))
    IN  IF norm_a # 0 /\ norm_b # 0
        THEN [num |-> dot, den |-> norm_a * norm_b]
        ELSE [num |-> 0, den |-> 1]

\* x >= y for fractions of positive denominators
SimGE(x, y) == x.num * y.den >= y.num * x.den

\* similarities.sort(key=lambda x: x[1], reverse=True): a stable sort, each
\* pair behind the pairs of greater similarity and before all others that
\* followed it
RECURSIVE SortReverse(_)
SortReverse(pairs) ==
    IF pairs = <<>> THEN <<>>
    ELSE LET rest == SortReverse(Tail(pairs))
             k == Cardinality({i \in 1..Len(rest) : ~SimGE(Head(pairs).sim, rest[i].sim)})
         IN  SubSeq(rest, 1, k) \o <<Head(pairs)>> \o SubSeq(rest, k + 1, Len(rest))

Similarities(graph, embedding, threshold) ==
    LET pair(node) == [node |-> node, sim |-> cosine_similarity(embedding, node.embedding)]
        kept(p) == p.node.embedding # <<>> /\ SimGE(p.sim, threshold)
    IN  SelectSeq([i \in 1..Len(graph.nodes) |-> pair(graph.nodes[i])], kept)

\* find_similar that returns one node more than top_k
find_similar_one_more(graph, embedding, top_k, threshold) ==
    LET sorted == SortReverse(Similarities(graph, embedding, threshold))
        top == PySlice(sorted, 0, top_k + 1)
    IN  [i \in 1..Len(top) |-> top[i].node]

\* find_similar that cuts to top_k before it sorts
find_similar_cut_first(graph, embedding, top_k, threshold) ==
    LET top == SortReverse(PySlice(Similarities(graph, embedding, threshold), 0, top_k))
    IN  [i \in 1..Len(top) |-> top[i].node]

DhatuSemanticGraph_find_similar(graph, embedding, top_k, threshold) ==
    LET sorted == SortReverse(Similarities(graph, embedding, threshold))
        top == PySlice(sorted, 0, top_k)
    IN  [i \in 1..Len(top) |-> top[i].node]

(***************************************************************************)
(* Codec specification: a guide is built by add_* calls and decoded.       *)
(***************************************************************************)
Positions == {0, 65535, 65536}
Lengths == {4, 256}
Texts == {LE, <<>>}
NodeIds == {"n0"}
Choices == {1}
HashSamples == {31599, 258}              \* hash(node_id) & 0xFFFF of two processes
ByteOrders == {"little", "big"}

NoCall == [name |-> "none"]
NotDecoded == [ParseStart EXCEPT !.outcome = "none"]

InitCodec ==
    /\ byteorder \in ByteOrders
    /\ str_hash \in [NodeIds -> HashSamples]
    /\ version = 1
    /\ operations = <<>>
    /\ added = <<>>
    /\ lastCall = NoCall
    /\ decoded = NotDecoded
    /\ wire = <<>>
    /\ source = [text |-> <<>>, language |-> "none"]
    /\ artifact = NoArtifact
    /\ restored = [raised |-> "not called"]
    /\ compression_cache = EmptyCache
    /\ h_call = [op |-> "none"]
    /\ ncalls = 0
    /\ dhatu_graph = EmptyGraph
    /\ graph_call = NoCall
    /\ representation = EmptyRepresentation(<<>>)
    /\ repr_calls = <<>>

Appended(name, op, rec) ==
    /\ Len(added) < MaxOps
    /\ operations' = operations \o rec
    /\ added' = Append(added, op)
    /\ lastCall' = [name |-> name, op |-> op, raised |-> "none", appended |-> rec]
    /\ decoded' = NotDecoded
    /\ UNCHANGED <<byteorder, str_hash, version, wire, pipeVars, harnessVars, graphVars, reprVars>>

add_replace ==
    \E position \in Positions, old_len \in Lengths, new_text \in Texts :
        Appended("add_replace",
                 [opcode |-> REPLACE, position |-> position,
                  old_len |-> old_len, text |-> new_text],
                 replace_record(position, old_len, new_text))

add_insert ==
    \E position \in Positions, text \in Texts :
        Appended("add_insert",
                 [opcode |-> INSERT, position |-> position, text |-> text],
                 insert_record(position, text))

add_delete ==
    \E position \in Positions, length \in Lengths :
        Appended("add_delete",
                 [opcode |-> DELETE, position |-> position, length |-> length],
                 delete_record(position, length))

add_disambiguate ==
    \E node_id \in NodeIds, choice \in Choices :
        Appended("add_disambiguate",
                 [opcode |-> DISAMBIGUATE, node_id |-> node_id, choice |-> choice],
                 disambiguate_record(node_id, choice))

add_specify ==
    \E node_id \in NodeIds, specification \in Texts :
        Appended("add_specify",
                 [opcode |-> SPECIFY, node_id |-> node_id, text |-> specification],
                 specify_record(node_id, specification))

\* GuideBytecode.deserialize(guide.serialize()).parse_operations()
RoundTrip ==
    /\ decoded.outcome = "none"
    /\ decoded' = decode_guide(serialize(version, operations))
    /\ UNCHANGED <<byteorder, str_hash, version, operations, added, lastCall, wire, pipeVars, harnessVars, graphVars, reprVars>>

NextCodec ==
    \/ add_replace
    \/ add_insert
    \/ add_delete
    \/ add_disambiguate
    \/ add_specify
    \/ RoundTrip

SpecCodec == InitCodec /\ [][NextCodec]_vars

(***************************************************************************)
(* Serializer specification: a guide is built by add_* calls, one of them  *)
(* with a text that fills the 2-byte length field, and is serialized and   *)
(* deserialized.                                                           *)
(***************************************************************************)
LongLen == 65531                         \* an Insert record of 65536 bytes
\* the text c * n
RECURSIVE Repeat(_, _)
Repeat(c, n) ==
    IF n = 0 THEN <<>>
    ELSE LET half == Repeat(c, n \div 2)
         IN  half \o half \o (IF n % 2 = 1 THEN <<c>> ELSE <<>>)

LongTexts == {Repeat(97, LongLen)}

\* add_insert(0, "a" * LongLen)
add_insert_long ==
    \E text \in LongTexts :
        Appended("add_insert",
                 [opcode |-> INSERT, position |-> 0, text |-> text],
                 insert_record(0, text))

\* copy = GuideBytecode.deserialize(guide.serialize()), len(guide)
serialize_deserialize ==
    /\ lastCall.name # "serialize"
    /\ LET data == serialize(version, operations)
           copy == deserialize(data)
       IN  /\ wire' = data
           /\ lastCall' = [name |-> "serialize", len |-> GuideLen(operations),
                           raised |-> copy.raised, version |-> copy.version,
                           operations |-> copy.operations]
    /\ UNCHANGED <<byteorder, str_hash, version, operations, added, decoded, pipeVars, harnessVars, graphVars, reprVars>>

NextSerialize ==
    \/ add_replace
    \/ add_insert
    \/ add_delete
    \/ add_disambiguate
    \/ add_specify
    \/ add_insert_long
    \/ serialize_deserialize

SpecSerialize == InitCodec /\ [][NextSerialize]_vars

(***************************************************************************)
(* Decoder specification: a serialized guide arrives from outside, is      *)
(* deserialized and parsed.                                                *)
(***************************************************************************)
WireBytes == {0, REPLACE, INSERT, DELETE, 5, DISAMBIGUATE, CONTEXT_START}

\* header (version 1, declared length) and body; the declared length is the
\* body's, or one less (a trailing byte beyond the declared stream)
WireGuides ==
    {<<1, 0>>} \cup
    {<<1, 0, n>> \o body : <<n, body>> \in
        {<<Len(b) - d, b>> : <<b, d>> \in
            {x \in SeqsUpTo(WireBytes, MaxWireLen) \X {0, 1} : Len(x[1]) >= x[2]}}}

InitDecode ==
    /\ byteorder \in ByteOrders
    /\ str_hash \in [NodeIds -> {31599}]
    /\ version = 1
    /\ operations = <<>>
    /\ added = <<>>
    /\ lastCall = NoCall
    /\ decoded = NotDecoded
    /\ wire \in WireGuides
    /\ source = [text |-> <<>>, language |-> "none"]
    /\ artifact = NoArtifact
    /\ restored = [raised |-> "not called"]
    /\ compression_cache = EmptyCache
    /\ h_call = [op |-> "none"]
    /\ ncalls = 0
    /\ dhatu_graph = EmptyGraph
    /\ graph_call = NoCall
    /\ representation = EmptyRepresentation(<<>>)
    /\ repr_calls = <<>>

\* guide = GuideBytecode.deserialize(wire)
deserialize_wire ==
    /\ lastCall = NoCall
    /\ LET g == deserialize(wire)
       IN  /\ lastCall' = [name |-> "deserialize", raised |-> g.raised]
           /\ version' = IF g.raised = "none" THEN g.version ELSE version
           /\ operations' = g.operations
    /\ UNCHANGED <<byteorder, str_hash, added, decoded, wire, pipeVars, harnessVars, graphVars, reprVars>>

\* guide.parse_operations()
parse_wire ==
    /\ lastCall.name = "deserialize"
    /\ lastCall.raised = "none"
    /\ decoded.outcome = "none"
    /\ decoded' = parse_operations(operations)
    /\ UNCHANGED <<byteorder, str_hash, version, operations, added, lastCall, wire, pipeVars, harnessVars, graphVars, reprVars>>

NextDecode ==
    \/ deserialize_wire
    \/ parse_wire

SpecDecode == InitDecode /\ [][NextDecode]_vars

(***************************************************************************)
(* Pipeline specification: one MockCompressor per process, compress and    *)
(* decompress calls, and a new process that works on the last artifact.    *)
(***************************************************************************)
SPACE == <<32>>
XWORD == <<120>>                          \* "x", a word of no table
ROI_CAP == <<82, 111, 105, 46>>           \* "Roi."
SCENARIO == LE \o SPACE \o ROI \o SPACE
            \o <<99, 111, 110, 113, 117, 105, 101, 114, 116>> \o SPACE
            \o <<108, 101>> \o SPACE \o ROYAUME  \* "Le roi conquiert le royaume"

TextPieces == {SPACE, FAIT, ROI_CAP, XWORD}
PieceTexts == {Flatten(ps) : ps \in SeqsUpTo(TextPieces, MaxPieces)}
TextInputs == PieceTexts \cup {SCENARIO, XWORD \o SPACE \o SPACE \o XWORD}
Languages == {"fr", "en"}

\* __init__: the graph after _init_dhatu_graph, six nodes d1..d6 added in
\* turn, each with the embedding [0.5] * 768 (coordinates counted in halves)
init_dhatu_graph ==
    LET node(i) == [id |-> "d" \o ToString(i), embedding |-> Repeat(1, 768)]
        add(graph, i) == DhatuSemanticGraph_add_node(graph, node(i))
    IN  add(add(add(add(add(add(EmptyGraph, 1), 2), 3), 4), 5), 6)

\* validate_compression(text, language): the artifact of compress, what
\* decompress made of it, and the validation returned or the error raised.
\* word_coverage is kept as the fraction num/den of overlap * 100 by the
\* number of original words.
MockCompressor_validate_compression(text, language) ==
    With(MockCompressor_compress(text, language), LAMBDA compressed :
      IF compressed.raised # "none"
      THEN [compressed |-> compressed, restored |-> [raised |-> "not called"],
            raised |-> compressed.raised]
      ELSE
    With(MockCompressor_decompress(compressed.semantic, compressed.guide), LAMBDA restored_text :
      LET Words(t) == {split(lower(t))[i] : i \in 1..Len(split(lower(t)))}
          original_words == Words(text)
          restored_words == Words(restored_text.text)
          word_overlap == Cardinality(original_words \cap restored_words)
      IN  IF restored_text.raised # "none"
          THEN [compressed |-> compressed, restored |-> restored_text,
                raised |-> restored_text.raised]
          ELSE IF Cardinality(original_words) = 0
          THEN [compressed |-> compressed, restored |-> restored_text,
                raised |-> "ZeroDivisionError"]
          ELSE [compressed |-> compressed, restored |-> restored_text,
                raised |-> "none",
                validation |->
                  [word_coverage |-> [num |-> word_overlap * 100,
                                      den |-> Cardinality(original_words)],
                   lossless |-> word_overlap = Cardinality(original_words)]]))

InitPipe ==
    /\ byteorder \in ByteOrders
    /\ str_hash \in [NodeIds -> HashSamples]
    /\ source = [text |-> <<>>, language |-> "none"]
    /\ artifact = NoArtifact
    /\ restored = [raised |-> "not called"]
    /\ version = 1
    /\ operations = <<>>
    /\ added = <<>>
    /\ lastCall = NoCall
    /\ decoded = NotDecoded
    /\ wire = <<>>
    /\ compression_cache = EmptyCache
    /\ h_call = [op |-> "none"]
    /\ ncalls = 0
    /\ dhatu_graph = init_dhatu_graph
    /\ graph_call = NoCall
    /\ representation = EmptyRepresentation(<<>>)
    /\ repr_calls = <<>>

\* compress that adds a node for the text to the graph
compress_learns ==
    \E text \in TextInputs, language \in Languages :
        /\ source' = [text |-> text, language |-> language]
        /\ artifact' = MockCompressor_compress(text, language)
        /\ restored' = [raised |-> "not called"]
        /\ dhatu_graph' = DhatuSemanticGraph_add_node(dhatu_graph,
                              [id |-> "d7", embedding |-> text])
        /\ UNCHANGED <<codecVars, harnessVars, graph_call, reprVars>>

compress ==
    \E text \in TextInputs, language \in Languages :
        /\ source' = [text |-> text, language |-> language]
        /\ artifact' = MockCompressor_compress(text, language)
        /\ restored' = [raised |-> "not called"]
        /\ UNCHANGED <<codecVars, harnessVars, graphVars, reprVars>>

\* decompress(compressed['semantic'], compressed['guide']) of the last artifact
decompress ==
    /\ artifact.raised = "none"
    /\ restored.raised = "not called"
    /\ restored' = MockCompressor_decompress(artifact.semantic, artifact.guide)
    /\ UNCHANGED <<source, artifact>>
    /\ UNCHANGED <<codecVars, harnessVars, graphVars, reprVars>>

validate_compression ==
    \E text \in TextInputs, language \in Languages :
        \E v \in {MockCompressor_validate_compression(text, language)} :
            /\ source' = [text |-> text, language |-> language]
            /\ artifact' = v.compressed
            /\ restored' = v.restored
            /\ lastCall' = IF v.raised # "none"
                           THEN [name |-> "validate_compression", raised |-> v.raised]
                           ELSE [name |-> "validate_compression", raised |-> "none",
                                 validation |-> v.validation]
            /\ UNCHANGED <<byteorder, str_hash, version, operations, added, decoded, wire>>
            /\ UNCHANGED <<harnessVars, graphVars, reprVars>>

\* the interpreter starts again: str hashes are salted anew, the artifact
\* written by the earlier process is kept
new_process ==
    /\ artifact # NoArtifact
    /\ \E h \in [NodeIds -> HashSamples] :
        /\ h # str_hash
        /\ str_hash' = h
    /\ UNCHANGED <<source, artifact, restored>>
    /\ UNCHANGED <<byteorder, version, operations, added, lastCall, decoded, wire>>
    /\ UNCHANGED <<harnessVars, graphVars, reprVars>>

NextPipe ==
    \/ compress
    \/ decompress
    \/ new_process

SpecPipe == InitPipe /\ [][NextPipe]_vars

(***************************************************************************)
(* Compressor specification: the calls made on one MockCompressor within   *)
(* one process.                                                            *)
(***************************************************************************)
NextCompressor ==
    \/ compress
    \/ decompress
    \/ validate_compression

SpecCompressor == InitPipe /\ [][NextCompressor]_vars

(***************************************************************************)
(* Harness specification: a CompressionValidator and its compressor.       *)
(***************************************************************************)
HarnessChars == {97, 233}                 \* "a" and "e acute"
HarnessTexts == SeqsUpTo(HarnessChars, MaxTextLen)
TestLists == SeqsUpTo(HarnessTexts, MaxTestTexts)

FreshArtifact(text) == MockSemanticCompressor_compress(EmptyCache, text).result

\* what decompress is handed: artifacts of compress, an artifact whose hash
\* belongs to another text, an artifact cut short, and no bytes at all
DecompressInputs ==
    {FreshArtifact(t) : t \in HarnessTexts}
    \cup {PySlice(FreshArtifact(t1), 0, HASH_LEN)
            \o PySlice(FreshArtifact(t2), HASH_LEN, Len(FreshArtifact(t2)))
          : t1 \in {<<>>, <<97>>}, t2 \in HarnessTexts}
    \cup {PySlice(FreshArtifact(t), 0, Len(FreshArtifact(t)) - 1) : t \in {<<>>, <<97>>}}
    \cup {<<>>}

InitHarness ==
    /\ compression_cache = EmptyCache
    /\ h_call = [op |-> "none"]
    /\ ncalls = 0
    /\ byteorder = "little"
    /\ str_hash \in [NodeIds -> {31599}]
    /\ version = 1
    /\ operations = <<>>
    /\ added = <<>>
    /\ lastCall = NoCall
    /\ decoded = NotDecoded
    /\ wire = <<>>
    /\ source = [text |-> <<>>, language |-> "none"]
    /\ artifact = NoArtifact
    /\ restored = [raised |-> "not called"]
    /\ dhatu_graph = EmptyGraph
    /\ graph_call = NoCall
    /\ representation = EmptyRepresentation(<<>>)
    /\ repr_calls = <<>>

Called ==
    /\ ncalls < MaxCalls
    /\ ncalls' = ncalls + 1
    /\ UNCHANGED <<codecVars, pipeVars, graphVars, reprVars>>

h_compress ==
    /\ Called
    /\ \E text \in HarnessTexts :
        LET c == MockSemanticCompressor_compress(compression_cache, text)
        IN  /\ compression_cache' = c.cache
            /\ h_call' = [op |-> "compress", text |-> text, result |-> c.result,
                          hit |-> text \in DOMAIN compression_cache]

h_decompress ==
    /\ Called
    /\ \E compressed \in DecompressInputs \cup {compression_cache[t] : t \in DOMAIN compression_cache} :
        LET d == MockSemanticCompressor_decompress(compressed)
        IN  /\ h_call' = [op |-> "decompress", compressed |-> compressed,
                          raised |-> d.raised, text |-> d.text]
            /\ UNCHANGED compression_cache

test_symmetry ==
    /\ Called
    /\ \E texts \in TestLists :
        LET run == SymmetryLoop(compression_cache, texts, <<>>)
        IN  /\ compression_cache' = run.cache
            /\ h_call' = [op |-> "test_symmetry", texts |-> texts, tests |-> run.tests]

test_integrity ==
    /\ Called
    /\ \E texts \in TestLists :
        LET run == IntegrityLoop(compression_cache, texts, <<>>)
        IN  /\ compression_cache' = run.cache
            /\ h_call' = [op |-> "test_integrity", texts |-> texts, tests |-> run.tests]

test_determinism ==
    /\ Called
    /\ \E text \in HarnessTexts, iterations \in 0..MaxIterations :
        LET t == determinism_test(compression_cache, text, iterations)
        IN  /\ compression_cache' = t.cache
            /\ h_call' = [op |-> "test_determinism", text |-> text,
                          iterations |-> iterations, results |-> t.results,
                          passed |-> t.passed]

NextHarness ==
    \/ h_compress
    \/ h_decompress
    \/ test_symmetry
    \/ test_integrity
    \/ test_determinism

SpecHarness == InitHarness /\ [][NextHarness]_vars

(***************************************************************************)
(* Validation specification: a CompressionValidator whose tests are run    *)
(* one by one, and main, which builds a validator of its own.              *)
(***************************************************************************)
MaxPairs == 2

\* (short_text, long_text): "a" / "aa" and "ab" / "aaa"
MonotonicityPairs == {<<<<97>>, <<97, 97>>>>, <<<<97, 98>>, <<97, 97, 97>>>>}
PairLists == SeqsUpTo(MonotonicityPairs, MaxPairs)

\* test_texts: the first one, two or three of "a", "e acute", ""
TextLists == {SubSeq(<<<<97>>, <<233>>, <<>>>>, 1, n) : n \in 1..3}

test_idempotence ==
    /\ Called
    /\ \E text \in HarnessTexts :
        LET t == idempotence_test(compression_cache, text)
        IN  /\ compression_cache' = t.cache
            /\ h_call' = [op |-> "test_idempotence", text |-> text,
                          compressed_once |-> t.compressed_once,
                          compressed_twice |-> t.compressed_twice,
                          passed |-> t.passed]

test_monotonicity ==
    /\ Called
    /\ \E texts \in PairLists :
        LET run == MonotonicityLoop(compression_cache, texts, <<>>)
        IN  /\ compression_cache' = run.cache
            /\ h_call' = [op |-> "test_monotonicity", texts |-> texts,
                          tests |-> run.tests]

\* main whose thresholds are strict
main_strict ==
    /\ Called
    /\ \E test_texts \in TextLists, monotonicity_pairs \in PairLists :
        \E result \in {run_full_validation(EmptyCache, test_texts,
                                           monotonicity_pairs).result} :
        LET conclusion ==
                IF result.success_rate.num > 90 * result.success_rate.den
                THEN [printed |-> "VALIDATION REUSSIE", returned |-> 0]
                ELSE IF result.success_rate.num > 75 * result.success_rate.den
                THEN [printed |-> "VALIDATION PARTIELLE", returned |-> 0]
                ELSE [printed |-> "VALIDATION ECHOUEE", returned |-> 1]
        IN  /\ h_call' = [op |-> "main", test_texts |-> test_texts,
                          monotonicity_pairs |-> monotonicity_pairs,
                          result |-> result, printed |-> conclusion.printed,
                          returned |-> conclusion.returned]
            /\ UNCHANGED compression_cache

\* main: validator = CompressionValidator(); run_full_validation(); the
\* conclusion printed and the exit code returned
main ==
    /\ Called
    /\ \E test_texts \in TextLists, monotonicity_pairs \in PairLists :
        \E result \in {run_full_validation(EmptyCache, test_texts,
                                           monotonicity_pairs).result} :
        LET conclusion ==
                IF result.success_rate.num >= 90 * result.success_rate.den
                THEN [printed |-> "VALIDATION REUSSIE", returned |-> 0]
                ELSE IF result.success_rate.num >= 75 * result.success_rate.den
                THEN [printed |-> "VALIDATION PARTIELLE", returned |-> 0]
                ELSE [printed |-> "VALIDATION ECHOUEE", returned |-> 1]
        IN  /\ h_call' = [op |-> "main", test_texts |-> test_texts,
                          monotonicity_pairs |-> monotonicity_pairs,
                          result |-> result, printed |-> conclusion.printed,
                          returned |-> conclusion.returned]
            /\ UNCHANGED compression_cache

NextValidation ==
    \/ test_idempotence
    \/ test_monotonicity
    \/ main

SpecValidation == InitHarness /\ [][NextValidation]_vars

(***************************************************************************)
(* Graph specification: a DhatuSemanticGraph, empty at first, and calls of *)
(* its methods.  "d9" is an id that is never added as a node.              *)
(***************************************************************************)
GraphIds == {"d1", "d2", "d3"}

InitGraph ==
    /\ dhatu_graph = EmptyGraph
    /\ graph_call = NoCall
    /\ ncalls = 0
    /\ representation = EmptyRepresentation(<<>>)
    /\ repr_calls = <<>>
    /\ byteorder = "little"
    /\ str_hash \in [NodeIds -> {31599}]
    /\ version = 1
    /\ operations = <<>>
    /\ added = <<>>
    /\ lastCall = NoCall
    /\ decoded = NotDecoded
    /\ wire = <<>>
    /\ source = [text |-> <<>>, language |-> "none"]
    /\ artifact = NoArtifact
    /\ restored = [raised |-> "not called"]
    /\ compression_cache = EmptyCache
    /\ h_call = [op |-> "none"]

GraphCalled ==
    /\ ncalls < MaxGraphCalls
    /\ ncalls' = ncalls + 1
    /\ UNCHANGED <<codecVars, pipeVars, compression_cache, h_call, reprVars>>

g_add_node ==
    /\ GraphCalled
    /\ \E id \in GraphIds, embedding \in {<<>>, <<1, 0>>, <<3, 4>>} :
        LET node == [id |-> id, embedding |-> embedding]
        IN  /\ dhatu_graph' = DhatuSemanticGraph_add_node(dhatu_graph, node)
            /\ graph_call' = [name |-> "add_node", node |-> node, result |-> id]

g_add_edge ==
    /\ GraphCalled
    /\ \E from_id \in GraphIds, to_id \in GraphIds \cup {"d9"} :
        /\ dhatu_graph' = DhatuSemanticGraph_add_edge(dhatu_graph, from_id, to_id)
        /\ graph_call' = [name |-> "add_edge", from_id |-> from_id, to_id |-> to_id,
                          appended |-> dhatu_graph' # dhatu_graph]

g_get_neighbors ==
    /\ GraphCalled
    /\ \E node_id \in GraphIds \cup {"d9"} :
        LET r == DhatuSemanticGraph_get_neighbors(dhatu_graph, node_id)
        IN  /\ graph_call' = [name |-> "get_neighbors", node_id |-> node_id,
                              raised |-> r.raised, result |-> r.nodes]
            /\ UNCHANGED dhatu_graph

g_find_similar ==
    /\ GraphCalled
    /\ \E embedding \in {<<1, 0>>, <<4, 3>>, <<0, 0>>}, top_k \in 0..MaxTopK,
          threshold \in {[num |-> 0, den |-> 1], [num |-> 7, den |-> 10],
                         [num |-> 1, den |-> 1]} :      \* 0.0, 0.7, 1.0
        /\ graph_call' = [name |-> "find_similar", embedding |-> embedding,
                          top_k |-> top_k, threshold |-> threshold,
                          result |-> DhatuSemanticGraph_find_similar(
                                         dhatu_graph, embedding, top_k, threshold)]
        /\ UNCHANGED dhatu_graph

NextGraph ==
    \/ g_add_node
    \/ g_add_edge
    \/ g_get_neighbors
    \/ g_find_similar

SpecGraph == InitGraph /\ [][NextGraph]_vars

(***************************************************************************)
(* Representation specification: a SemanticRepresentation, empty at first, *)
(* add_unit calls and add_relation calls between units it returned.        *)
(***************************************************************************)
InitRepr ==
    /\ representation = EmptyRepresentation(<<>>)
    /\ repr_calls = <<>>
    /\ dhatu_graph = EmptyGraph
    /\ graph_call = NoCall
    /\ ncalls = 0
    /\ byteorder = "little"
    /\ str_hash \in [NodeIds -> {31599}]
    /\ version = 1
    /\ operations = <<>>
    /\ added = <<>>
    /\ lastCall = NoCall
    /\ decoded = NotDecoded
    /\ wire = <<>>
    /\ source = [text |-> <<>>, language |-> "none"]
    /\ artifact = NoArtifact
    /\ restored = [raised |-> "not called"]
    /\ compression_cache = EmptyCache
    /\ h_call = [op |-> "none"]

\* the values given to add_unit: the str "1" and the int 1
UnitValues == {<<49>>, PyInt(<<49>>)}

r_add_unit ==
    /\ Len(repr_calls) < MaxReprCalls
    /\ \E unit_type \in {"DHATU", "PATTERN"}, value \in UnitValues, create_node \in BOOLEAN :
        /\ representation' = add_unit(representation, unit_type, value, create_node)
        /\ repr_calls' = Append(repr_calls,
               [name |-> "add_unit", unit_type |-> unit_type, value |-> value,
                create_node |-> create_node,
                result |-> representation'.sequence[Len(representation'.sequence)]])
    /\ UNCHANGED <<codecVars, pipeVars, harnessVars, graphVars>>

r_add_relation ==
    /\ Len(repr_calls) < MaxReprCalls
    /\ \E i, j \in 1..Len(representation.sequence), relation \in {"AGENT", "PATIENT"} :
        LET from_unit == representation.sequence[i]
            to_unit == representation.sequence[j]
        IN  /\ representation' = add_relation(representation, from_unit, to_unit, relation)
            /\ repr_calls' = Append(repr_calls,
                   [name |-> "add_relation", from_unit |-> from_unit,
                    to_unit |-> to_unit, relation |-> relation])
    /\ UNCHANGED <<codecVars, pipeVars, harnessVars, graphVars>>

r_to_dict ==
    /\ Len(repr_calls) < MaxReprCalls
    /\ repr_calls' = Append(repr_calls,
           [name |-> "to_dict", result |-> to_dict(representation)])
    /\ UNCHANGED <<representation, codecVars, pipeVars, harnessVars, graphVars>>

NextRepr ==
    \/ r_add_unit
    \/ r_add_relation
    \/ r_to_dict

SpecRepr == InitRepr /\ [][NextRepr]_vars

(***************************************************************************)
(* Claims on the guide codec.                                              *)
(***************************************************************************)
Raised(outcome) == outcome \notin {"none", "running", "returned", "diverges"}

WithinLimits(op) ==
    /\ op.opcode \in {REPLACE, INSERT, DELETE} => op.position <= 65535
    /\ op.opcode = REPLACE => op.old_len <= 255
    /\ op.opcode = DELETE => op.length <= 255
    /\ op.opcode = DISAMBIGUATE => op.choice <= 255

\* an operation as a faithful decoder returns it: the node id of a semantic
\* patch is on the wire as its 16-bit reference
Expected(op) ==
    IF op.opcode = DISAMBIGUATE
    THEN [opcode |-> DISAMBIGUATE, node_ref |-> str_hash[op.node_id] % 65536,
          choice |-> op.choice]
    ELSE IF op.opcode = SPECIFY
    THEN [opcode |-> SPECIFY, node_ref |-> str_hash[op.node_id] % 65536,
          text |-> op.text]
    ELSE op

RoundTripDone == decoded.outcome # "none" /\ lastCall.name # "deserialize"

\* C2: a list of operations within the field widths, encoded with add_*,
\* then serialized, deserialized and parsed, comes back as the same
\* operations with the same fields in the same order.
C2_GuideRoundTrip ==
    (RoundTripDone /\ \A i \in 1..Len(added) : WithinLimits(added[i]))
        => /\ decoded.outcome = "returned"
           /\ decoded.ops = [i \in 1..Len(added) |-> Expected(added[i])]

ScenarioGuide ==
    added = << [opcode |-> REPLACE, position |-> 0, old_len |-> 4, text |-> LE],
               [opcode |-> DISAMBIGUATE, node_id |-> "n0", choice |-> 1] >>

\* C3: the guide add_replace(0, 4, "Le"), add_disambiguate(node, 1) decodes
\* to exactly Replace(0, 4, "Le") followed by Disambiguate(choice 1).
C3_ScenarioDecodes ==
    (RoundTripDone /\ ScenarioGuide)
        => /\ decoded.outcome = "returned"
           /\ Len(decoded.ops) = 2
           /\ decoded.ops[1] = [opcode |-> REPLACE, position |-> 0,
                                old_len |-> 4, text |-> LE]
           /\ decoded.ops[2].opcode = DISAMBIGUATE
           /\ decoded.ops[2].choice = 1

\* C5: a stream with a text record that has no null terminator, or with a
\* record cut before its fixed-width fields end, makes parse_operations
\* raise an error, and no text of such a record is kept.
C5_MalformedRaises ==
    (decoded.outcome # "none" /\ (decoded.unterminated \/ decoded.truncated))
        => Raised(decoded.outcome)

\* C6: a record that starts with a byte that is no defined opcode stops
\* parse_operations softly: no error, the operations parsed so far returned.
C6_UnknownOpcodeSoftStop ==
    (decoded.outcome # "none" /\ decoded.unknown)
        => decoded.outcome = "returned"

Overflows(c) ==
    /\ c.name \in {"add_replace", "add_insert", "add_delete"}
    /\ \/ c.op.position > 65535
       \/ (c.name = "add_replace" /\ c.op.old_len > 255)
       \/ (c.name = "add_delete" /\ c.op.length > 255)

\* C7: add_replace, add_insert or add_delete with a position above 65535
\* (or a length above 255) fails with FieldOverflow and appends no byte.
C7_OverflowRejected ==
    Overflows(lastCall)
        => lastCall.raised = "FieldOverflow" /\ lastCall.appended = <<>>

(***************************************************************************)
(* Claims on the compression pipeline.                                     *)
(***************************************************************************)
\* C1: decompress applied to the semantic payload and guide that
\* compress(text) produced returns exactly the original text.
C1_PipelineRoundTrip ==
    restored.raised # "not called"
        => restored.raised = "none" /\ restored.text = source.text

\* C8: compress never fails, whatever the text (empty and whitespace-only
\* included), and each token outside the word table becomes one Pattern unit
\* whose value is the token unchanged.
C8_CompressNeverFails ==
    artifact # NoArtifact
        => /\ artifact.raised = "none"
           /\ LET words == split(source.text)
                  sequence == artifact.semantic.sequence
              IN  /\ Len(sequence) = Len(words)
                  /\ \A i \in 1..Len(words) :
                        ~Mapped(strip(lower(words[i])))
                            => /\ sequence[i].type = "pattern"
                               /\ sequence[i].value = words[i]

\* C10: the artifact of compress(text, language) depends on text and
\* language only: a call with the arguments of the call before it, in the
\* same process or in a new one, returns an equal artifact.
C10_PureCompress ==
    [][(source' = source /\ artifact.raised = "none" /\ artifact'.raised = "none")
          => artifact' = artifact]_vars

(***************************************************************************)
(* Claims on the validation harness.                                       *)
(***************************************************************************)
\* C4: whatever calls came before, decompress(compress(t)) = t, the SHA-256
\* of both agree, and test_symmetry / test_integrity pass every text.
C4_HarnessSymmetry ==
    /\ h_call.op = "decompress"
          => \A t \in DOMAIN compression_cache :
                compression_cache[t] = h_call.compressed
                    => h_call.raised = "none" /\ h_call.text = t
    /\ h_call.op \in {"test_symmetry", "test_integrity"}
          => /\ Len(h_call.tests) = Len(h_call.texts)
             /\ \A i \in 1..Len(h_call.tests) : h_call.tests[i].passed

\* a text was compressed by an earlier call and test_integrity ran on it
C4_Witness ==
    /\ h_call.op = "test_integrity"
    /\ ncalls >= 2
    /\ Len(h_call.texts) >= 1
    /\ h_call.texts[1] = <<233>>
    /\ h_call.tests[1].passed

\* C9: compress(t) returns the same bytes whatever calls came before (a
\* cache hit gives what a fresh compressor gives), and test_determinism
\* passes for every iteration count.
C9_Determinism ==
    /\ h_call.op = "compress" => h_call.result = FreshArtifact(h_call.text)
    /\ h_call.op = "test_determinism"
          => /\ h_call.passed
             /\ Len(h_call.results) = h_call.iterations
             /\ \A i \in 1..Len(h_call.results) :
                    h_call.results[i] = FreshArtifact(h_call.text)

\* compress answered from the cache
C9_Witness ==
    /\ h_call.op = "compress"
    /\ h_call.hit
    /\ h_call.text # <<>>

StoredHash(compressed) == PySlice(compressed, 0, HASH_LEN)

TextHash(text) == PySlice(Sha256(Utf8Encode(text)), 0, HASH_LEN)

\* C11: decompress raises and returns no text whenever the 16 bytes at the
\* head of the artifact differ from the first 16 bytes of SHA-256 of the
\* text decompressed from the rest; a text it returns has the stored hash;
\* the call leaves the cache as it was.
C11_IntegrityHardFailure ==
    /\ [](h_call.op = "decompress" =>
            LET raw == ZlibDecompress(PySlice(h_call.compressed, HASH_LEN,
                                              Len(h_call.compressed)))
                dec == Utf8Decode(raw.bytes)
            IN  /\ (raw.ok /\ dec.ok
                      /\ StoredHash(h_call.compressed) # TextHash(dec.text))
                        => Raised(h_call.raised) /\ h_call.text = <<>>
                /\ h_call.raised = "none"
                        => TextHash(h_call.text) = StoredHash(h_call.compressed))
    /\ [][(h_call'.op = "decompress" /\ ncalls' # ncalls)
            => compression_cache' = compression_cache]_vars

\* decompress was handed a well-formed artifact whose hash is another text's
C11_Witness ==
    /\ h_call.op = "decompress"
    /\ h_call.raised = "ValueError"
    /\ ZlibDecompress(PySlice(h_call.compressed, HASH_LEN, Len(h_call.compressed))).ok
    /\ DOMAIN compression_cache # {}

\* the number of bytes the wire format gives the record of an operation
WireLen(op) ==
    IF op.opcode \in {DELETE, DISAMBIGUATE} THEN 4
    ELSE IF op.opcode = REPLACE THEN 1 + 2 + 1 + Len(Utf8Encode(op.text)) + 1
    ELSE 1 + 2 + Len(Utf8Encode(op.text)) + 1

\* C12: every add_* call appends exactly the record of the wire format,
\* opcode first and no padding byte (Delete and Disambiguate 4 bytes,
\* Replace 1+2+1+n+1, Insert and Specify 1+2+n+1, n the UTF-8 length of the
\* text), and parse_operations advances by the same number of bytes.
C12_RecordLayout ==
    /\ lastCall.name \in {"add_replace", "add_insert", "add_delete",
                          "add_disambiguate", "add_specify"}
          => /\ Len(lastCall.appended) = WireLen(lastCall.op)
             /\ lastCall.appended[1] = lastCall.op.opcode
             /\ Len(operations) >= Len(lastCall.appended)
             /\ SubSeq(operations, Len(operations) - Len(lastCall.appended) + 1,
                       Len(operations)) = lastCall.appended
    /\ (RoundTripDone /\ Len(added) = 1 /\ WithinLimits(added[1]))
          => decoded.offset = WireLen(added[1])

\* C13: for every guide built by add_* calls, serialize() is a 3-byte
\* header (version, operation-stream length as 2 bytes, high byte first)
\* followed by the operation stream, the length field is the number of
\* operation bytes, and deserialize(serialize(g)) has the version and the
\* operation bytes of g.
C13_SerializeRoundTrip ==
    lastCall.name = "serialize"
        => /\ Len(wire) = 3 + Len(operations)
           /\ lastCall.len = Len(wire)
           /\ wire[1] = version
           /\ SubSeq(wire, 4, Len(wire)) = operations
           /\ wire[2] * 256 + wire[3] = Len(operations)
           /\ lastCall.raised = "none"
           /\ lastCall.version = version
           /\ lastCall.operations = operations

(***************************************************************************)
(* Claims on the dhatu graph.                                              *)
(***************************************************************************)
\* the position of a node in the graph's dict, 0 for a node not in it
NodePos(node) ==
    IF \E i \in 1..Len(dhatu_graph.nodes) : dhatu_graph.nodes[i] = node
    THEN CHOOSE i \in 1..Len(dhatu_graph.nodes) : dhatu_graph.nodes[i] = node
    ELSE 0

QuerySim(node) == cosine_similarity(graph_call.embedding, node.embedding)

\* a node qualifies when it has an embedding whose cosine similarity to the
\* query is at least the threshold
Qualifies(node) ==
    /\ node.embedding # <<>>
    /\ QuerySim(node).num * graph_call.threshold.den
          >= graph_call.threshold.num * QuerySim(node).den

Qualifying == {i \in 1..Len(dhatu_graph.nodes) : Qualifies(dhatu_graph.nodes[i])}

\* C14: find_similar returns at most top_k nodes, each a node of the graph
\* with cosine similarity to the query >= threshold, and nothing when no
\* node qualifies.
C14_SimilarityBounds ==
    graph_call.name = "find_similar"
        => /\ Len(graph_call.result) <= graph_call.top_k
           /\ \A i \in 1..Len(graph_call.result) :
                /\ NodePos(graph_call.result[i]) # 0
                /\ Qualifies(graph_call.result[i])
           /\ Qualifying = {} => graph_call.result = <<>>

\* find_similar was capped: more nodes qualify than top_k allows
C14_Witness ==
    /\ graph_call.name = "find_similar"
    /\ graph_call.top_k = 1
    /\ graph_call.threshold.num = 7
    /\ Cardinality(Qualifying) = 2
    /\ Len(dhatu_graph.nodes) = 3
    /\ Len(graph_call.result) = 1

\* node a ranks before node b: greater similarity, or equal similarity and
\* added first
RanksBefore(a, b) ==
    \/ QuerySim(a).num * QuerySim(b).den > QuerySim(b).num * QuerySim(a).den
    \/ /\ QuerySim(a).num * QuerySim(b).den = QuerySim(b).num * QuerySim(a).den
       /\ NodePos(a) < NodePos(b)

\* C15: find_similar returns the qualifying nodes by descending similarity,
\* nodes of equal similarity in the order they were first added, and the
\* result is the first top_k nodes of that ordering.
C15_SimilarityOrder ==
    graph_call.name = "find_similar"
        => LET result == graph_call.result
               returned == {NodePos(result[i]) : i \in 1..Len(result)}
           IN  /\ Len(result) = Min(graph_call.top_k, Cardinality(Qualifying))
               /\ returned \subseteq Qualifying
               /\ \A i, j \in 1..Len(result) :
                     i < j => RanksBefore(result[i], result[j])
               /\ \A q \in Qualifying \ returned, i \in 1..Len(result) :
                     RanksBefore(result[i], dhatu_graph.nodes[q])

\* three nodes qualify, the two returned tie and the one added between them
\* is left out
C15_Witness ==
    /\ graph_call.name = "find_similar"
    /\ Cardinality(Qualifying) = 3
    /\ Len(graph_call.result) = 2
    /\ QuerySim(graph_call.result[1]) = QuerySim(graph_call.result[2])
    /\ NodePos(graph_call.result[1]) = 1
    /\ NodePos(graph_call.result[2]) = 3

\* C16: no adjacency list holds the same target twice, and add_edge(a, b)
\* called again right after add_edge(a, b) leaves nodes and edges as they
\* were.
C16_AddEdgeIdempotent ==
    /\ [](\A id \in DOMAIN dhatu_graph.edges :
            \A i, j \in 1..Len(dhatu_graph.edges[id]) :
                i # j => dhatu_graph.edges[id][i] # dhatu_graph.edges[id][j])
    /\ [][(/\ graph_call.name = "add_edge"
           /\ graph_call'.name = "add_edge"
           /\ ncalls' # ncalls
           /\ graph_call'.from_id = graph_call.from_id
           /\ graph_call'.to_id = graph_call.to_id)
            => dhatu_graph' = dhatu_graph]_vars

\* add_edge found its target in the list of a node of the graph
C16_Witness ==
    /\ graph_call.name = "add_edge"
    /\ ~graph_call.appended
    /\ graph_call.from_id \in DOMAIN dhatu_graph.edges
    /\ \E i \in 1..Len(dhatu_graph.edges[graph_call.from_id]) :
          dhatu_graph.edges[graph_call.from_id][i] = graph_call.to_id

\* C17: get_neighbors never raises; for an id not in the graph it returns
\* the empty list, for a known id the nodes its adjacency list names, in
\* list order, targets that are no nodes left out; the graph stays as it is.
C17_NeighborsTotal ==
    /\ [](graph_call.name = "get_neighbors" =>
            LET ids == [i \in 1..Len(graph_call.result) |-> graph_call.result[i].id]
                IsNode(id) == \E i \in 1..Len(dhatu_graph.nodes) :
                                 dhatu_graph.nodes[i].id = id
            IN  /\ graph_call.raised = "none"
                /\ \A i \in 1..Len(graph_call.result) :
                      NodePos(graph_call.result[i]) # 0
                /\ ~IsNode(graph_call.node_id) => graph_call.result = <<>>
                /\ IsNode(graph_call.node_id)
                      => ids = SelectSeq(dhatu_graph.edges[graph_call.node_id], IsNode))
    /\ [][(graph_call'.name = "get_neighbors" /\ ncalls' # ncalls)
            => dhatu_graph' = dhatu_graph]_vars

\* the adjacency list names a node and an id that was never added
C17_Witness ==
    /\ graph_call.name = "get_neighbors"
    /\ graph_call.node_id \in DOMAIN dhatu_graph.edges
    /\ Len(dhatu_graph.edges[graph_call.node_id]) = 2
    /\ Len(graph_call.result) = 1

(***************************************************************************)
(* Claims on the semantic representation.                                  *)
(***************************************************************************)
\* the add_unit calls made so far, in call order
UnitCalls ==
    LET IsAddUnit(c) == c.name = "add_unit"
    IN  SelectSeq(repr_calls, IsAddUnit)

\* C18: after any add_unit and add_relation calls, every unit created with
\* create_node = true names exactly one node of graph.nodes, which has the
\* unit's type and value, no two units share a node, there are as many
\* nodes as such units, and a unit created with create_node = false has no
\* graph node.
C18_OneNodePerUnit ==
    LET sequence == representation.sequence
        nodes == representation.nodes
        WithNode == {i \in 1..Len(UnitCalls) : UnitCalls[i].create_node}
        NodesOf(i) == {k \in 1..Len(nodes) : nodes[k].id = sequence[i].graph_node_id}
    IN  /\ Len(sequence) = Len(UnitCalls)
        /\ \A i \in WithNode :
              /\ Cardinality(NodesOf(i)) = 1
              /\ \A k \in NodesOf(i) :
                    /\ nodes[k].type = UnitCalls[i].unit_type
                    /\ nodes[k].value = UnitCalls[i].value
        /\ \A i, j \in WithNode : i # j => NodesOf(i) \cap NodesOf(j) = {}
        /\ Len(nodes) = Cardinality(WithNode)
        /\ \A i \in 1..Len(sequence) :
              i \notin WithNode => sequence[i].graph_node_id = None

\* a unit with a node was added after a unit without one
C18_Witness ==
    /\ Len(representation.sequence) >= 3
    /\ representation.sequence[1].graph_node_id = None
    /\ representation.sequence[2].graph_node_id # None
    /\ representation.sequence[3].graph_node_id # None
    /\ representation.sequence[2].type # representation.sequence[3].type

\* C19: add_unit never fails and appends at the next position: the i-th
\* unit (from 0) has position i and id "u" i, ids are pairwise distinct,
\* each call makes the sequence one longer and returns the unit appended,
\* and the units added earlier stay as they were.
C19_AppendAtNext ==
    /\ [](LET sequence == representation.sequence
          IN  /\ Len(sequence) = Len(UnitCalls)
              /\ \A i \in 1..Len(sequence) :
                    /\ sequence[i].position = i - 1
                    /\ sequence[i].id = "u" \o ToString(i - 1)
                    /\ sequence[i].type = UnitCalls[i].unit_type
                    /\ sequence[i].value = UnitCalls[i].value
                    /\ UnitCalls[i].result = sequence[i]
              /\ \A i, j \in 1..Len(sequence) :
                    i # j => sequence[i].id # sequence[j].id)
    /\ [][/\ Len(representation'.sequence) >= Len(representation.sequence)
          /\ \A i \in 1..Len(representation.sequence) :
                representation'.sequence[i] = representation.sequence[i]
          /\ (Len(repr_calls') > Len(repr_calls)
                /\ repr_calls'[Len(repr_calls')].name = "add_unit")
                => Len(representation'.sequence) = Len(representation.sequence) + 1]_vars

\* units were added with and without a node, the numbers of units and of
\* nodes differ
C19_Witness ==
    /\ Len(representation.sequence) = 4
    /\ Len(representation.nodes) = 2
    /\ representation.sequence[4].graph_node_id = None
    /\ representation.sequence[2].graph_node_id = None

\* C20: add_relation(a, b, relation) appends exactly the edge (a's node,
\* b's node, relation, weight 1.0) when both units own a graph node, and
\* otherwise changes nothing; it never changes the sequence or the nodes.
C20_RelationFrame ==
    [][(/\ Len(repr_calls') > Len(repr_calls)
        /\ repr_calls'[Len(repr_calls')].name = "add_relation")
         => LET call == repr_calls'[Len(repr_calls')]
                Owns(unit) == \E k \in 1..Len(representation.nodes) :
                                 representation.nodes[k].id = unit.graph_node_id
            IN  /\ representation'.sequence = representation.sequence
                /\ representation'.nodes = representation.nodes
                /\ (Owns(call.from_unit) /\ Owns(call.to_unit))
                      => representation'.edges = Append(representation.edges,
                            [from_id |-> call.from_unit.graph_node_id,
                             to_id |-> call.to_unit.graph_node_id,
                             relation |-> call.relation, weight |-> 1])
                /\ ~(Owns(call.from_unit) /\ Owns(call.to_unit))
                      => representation'.edges = representation.edges]_vars

\* an add_relation with a unit that has no node came after one that added
\* an edge
C20_Witness ==
    /\ Len(repr_calls) = 4
    /\ repr_calls[3].name = "add_relation"
    /\ repr_calls[4].name = "add_relation"
    /\ repr_calls[4].to_unit.graph_node_id = None
    /\ repr_calls[4].from_unit.graph_node_id # None
    /\ Len(representation.edges) = 1

\* the representations that differ from rep in the value of one unit
ValueVariants(rep) ==
    {[rep EXCEPT !.sequence[i].value = v] :
        i \in 1..Len(rep.sequence), v \in UnitValues} \ {rep}

\* C21: to_dict is lossless: the payload it returns determines the unit
\* sequence with its values, so a representation that differs in the value
\* of a unit has a different payload.
C21_LosslessPayload ==
    (Len(repr_calls) > 0 /\ repr_calls[Len(repr_calls)].name = "to_dict")
       => \A other \in ValueVariants(representation) :
             to_dict(other) # repr_calls[Len(repr_calls)].result

MonotonicityTests ==
    (Len(h_call.test_texts) + 3) ..
        (Len(h_call.test_texts) + 2 + Len(h_call.monotonicity_pairs))

\* C23: a pair whose long text compresses to fewer bytes than its short
\* text is not counted as a failure: failed_tests counts only the other
\* tests, and passed_tests and the exit code are those of a run whose
\* monotonicity tests all pass.
C23_MonotonicityAdvisory ==
    h_call.op = "main"
       => LET tests == h_call.result.tests
              failed == Cardinality({i \in (1..Len(tests)) \ MonotonicityTests :
                                       ~tests[i].passed})
          IN  /\ h_call.result.failed_tests = failed
              /\ h_call.result.passed_tests = Len(tests) - failed
              /\ failed = 0 => h_call.returned = 0

\* C24: main returns 0 and reports the run valid when 90% of the tests or
\* more passed, returns 0 and reports it partly valid from 75% and below
\* 90%, and returns 1 below 75%; passed_tests + failed_tests = total_tests
\* = the number of tests recorded.
C24_Classification ==
    h_call.op = "main"
       => LET r == h_call.result
              passed == Cardinality({i \in 1..Len(r.tests) : r.tests[i].passed})
          IN  /\ r.total_tests = Len(r.tests)
              /\ r.passed_tests = passed
              /\ r.passed_tests + r.failed_tests = r.total_tests
              /\ 100 * passed >= 90 * Len(r.tests)
                    => h_call.printed = "VALIDATION REUSSIE" /\ h_call.returned = 0
              /\ (100 * passed >= 75 * Len(r.tests) /\ 100 * passed < 90 * Len(r.tests))
                    => h_call.printed = "VALIDATION PARTIELLE" /\ h_call.returned = 0
              /\ 100 * passed < 75 * Len(r.tests)
                    => h_call.printed = "VALIDATION ECHOUEE" /\ h_call.returned = 1

\* exactly 75% of the tests of a run passed
C24_Witness ==
    /\ h_call.op = "main"
    /\ h_call.result.total_tests = 8
    /\ h_call.result.passed_tests = 6
    /\ h_call.returned = 0

\* C25: parse_operations scans forward only: the read offset grows at every
\* iteration of its loop, so it ends on every operation stream and parses
\* no record twice.
C25_ForwardScan == decoded.outcome # "diverges"

(***************************************************************************)
(* Claims on decompress and on the compressor's graph.                     *)
(***************************************************************************)
\* what an operation makes of a draft: Replace puts the text in the place
\* of old_len characters at position, Insert puts it in at position, Delete
\* takes length characters out at position
ApplyOperation(draft, op) ==
    IF op.opcode = REPLACE
    THEN PySlice(draft, 0, op.position) \o op.text
           \o PySlice(draft, op.position + op.old_len, Len(draft))
    ELSE IF op.opcode = INSERT
    THEN PySlice(draft, 0, op.position) \o op.text
           \o PySlice(draft, op.position, Len(draft))
    ELSE IF op.opcode = DELETE
    THEN PySlice(draft, 0, op.position)
           \o PySlice(draft, op.position + op.length, Len(draft))
    ELSE draft

RECURSIVE ApplyOperations(_, _)
ApplyOperations(draft, ops) ==
    IF ops = <<>> THEN draft
    ELSE ApplyOperations(ApplyOperation(draft, Head(ops)), Tail(ops))

\* C26: the text decompress returns is the draft, the unit values of the
\* sequence put together, after every operation decoded from the guide was
\* applied to it in stream order.
C26_GuideApplied ==
    restored.raised = "none"
       => LET sequence == artifact.semantic.sequence
              draft == join([i \in 1..Len(sequence) |-> sequence[i].value])
              ops == decode_guide(fromhex(artifact.guide).bytes).ops
          IN  restored.text = ApplyOperations(draft, ops)

C28_AddNodeKeepsEdges ==
    [][\A id \in DOMAIN dhatu_graph.edges :
         /\ id \in DOMAIN dhatu_graph'.edges
         /\ \A i \in 1..Len(dhatu_graph.edges[id]) :
               \E j \in 1..Len(dhatu_graph'.edges[id]) :
                  dhatu_graph'.edges[id][j] = dhatu_graph.edges[id][i]]_vars

\* C29: the ids that have an adjacency list are the ids of the nodes, and
\* add_edge from an id that is not in the graph leaves the graph as it is.
C29_EdgeKeysAreNodes ==
    /\ [](DOMAIN dhatu_graph.edges
            = {dhatu_graph.nodes[i].id : i \in 1..Len(dhatu_graph.nodes)})
    /\ [][(/\ graph_call'.name = "add_edge"
           /\ ncalls' # ncalls
           /\ graph_call'.from_id \notin DOMAIN dhatu_graph.edges)
            => dhatu_graph' = dhatu_graph]_vars

\* add_edge was called with a source that is not in a graph that has nodes
\* and edges
C29_Witness ==
    /\ graph_call.name = "add_edge"
    /\ graph_call.from_id \notin DOMAIN dhatu_graph.edges
    /\ Len(dhatu_graph.nodes) = 2
    /\ \E id \in DOMAIN dhatu_graph.edges : Len(dhatu_graph.edges[id]) = 1

(***************************************************************************)
(* Claims on the compressor's cache.                                       *)
(***************************************************************************)
\* C30: every cache entry maps its text to the first 16 bytes of the
\* SHA-256 of the text followed by the zlib compression of the text;
\* compress(t) adds at most the entry of t, no call changes or removes an
\* entry, and decompress leaves the cache as it is.
C30_CacheEntries ==
    /\ [](\A t \in DOMAIN compression_cache :
            compression_cache[t] = TextHash(t) \o ZlibCompress(Utf8Encode(t)))
    /\ [][/\ \A t \in DOMAIN compression_cache :
                /\ t \in DOMAIN compression_cache'
                /\ compression_cache'[t] = compression_cache[t]
          /\ (h_call'.op = "compress" /\ ncalls' # ncalls)
                => DOMAIN compression_cache' \subseteq
                      DOMAIN compression_cache \cup {h_call'.text}
          /\ (h_call'.op = "decompress" /\ ncalls' # ncalls)
                => DOMAIN compression_cache' = DOMAIN compression_cache]_vars

\* compress added a second entry to the cache
C30_Witness ==
    /\ h_call.op = "compress"
    /\ ~h_call.hit
    /\ Cardinality(DOMAIN compression_cache) = 2
    /\ h_call.text = <<233>>

====
